---- MODULE Spec2Model ----
(***************************************************************************)
(* Duck Compiler: the editor view (src/src/App.tsx).  A React component    *)
(* whose state is a set of useState cells, changed by UI event handlers    *)
(* and by the continuations of three kinds of network calls (directory     *)
(* listing, file content, code execution).  Handlers and continuations     *)
(* interleave on one thread: each action below is one handler, or one      *)
(* continuation run from the point it resumes to its next await.           *)
(*                                                                         *)
(* Text is modelled as a sequence of one-character strings, so that the    *)
(* string operations of the source (split, toLowerCase, trim, regular      *)
(* expression tests, atob) are computed rather than assumed.               *)
(***************************************************************************)
EXTENDS Integers, Sequences, FiniteSets, TLC

\* ------------------------------------------------------------------ text

UpperChars == <<"A", "B", "C", "D", "E", "F", "G", "H", "I", "J", "K", "L", "M", "N", "O", "P", "Q", "R", "S", "T", "U", "V", "W", "X", "Y", "Z">>
LowerChars == <<"a", "b", "c", "d", "e", "f", "g", "h", "i", "j", "k", "l", "m", "n", "o", "p", "q", "r", "s", "t", "u", "v", "w", "x", "y", "z">>

\* String.prototype.toLowerCase on one character
LowerChar(c) ==
    IF \E i \in 1..Len(UpperChars) : UpperChars[i] = c
    THEN LowerChars[CHOOSE i \in 1..Len(UpperChars) : UpperChars[i] = c]
    ELSE c

toLowerCase(s) == [i \in 1..Len(s) |-> LowerChar(s[i])]

\* The part of s after its last "." (the whole of s when it has none):
\* s.split('.').pop()
LastDot(s) ==
    IF \E i \in 1..Len(s) : s[i] = "."
    THEN CHOOSE i \in 1..Len(s) : s[i] = "." /\ \A j \in (i+1)..Len(s) : s[j] # "."
    ELSE 0

SplitPop(s) == SubSeq(s, LastDot(s) + 1, Len(s))

\* '.' + filename.split('.').pop()?.toLowerCase()
ExtOf(filename) == <<".">> \o toLowerCase(SplitPop(filename))

\* ---------------------------------------------------------------- tables

LANGUAGES == <<
    [value |-> "python3", label |-> "Python 3",   extensions |-> <<<<".", "p", "y">>>>],
    [value |-> "java",    label |-> "Java",       extensions |-> <<<<".", "j", "a", "v", "a">>>>],
    [value |-> "c",       label |-> "C",          extensions |-> <<<<".", "c">>, <<".", "h">>>>],
    [value |-> "cpp17",   label |-> "C++ 17",     extensions |-> <<<<".", "c", "p", "p">>, <<".", "c", "c">>, <<".", "c", "x", "x">>, <<".", "h", "p", "p">>>>],
    [value |-> "nodejs",  label |-> "JavaScript", extensions |-> <<<<".", "j", "s">>>>],
    [value |-> "ruby",    label |-> "Ruby",       extensions |-> <<<<".", "r", "b">>>>],
    [value |-> "go",      label |-> "Go",         extensions |-> <<<<".", "g", "o">>>>],
    [value |-> "rust",    label |-> "Rust",       extensions |-> <<<<".", "r", "s">>>>],
    [value |-> "php",     label |-> "PHP",        extensions |-> <<<<".", "p", "h", "p">>>> ] >>

\* The extension -> Prism language table, as a sequence of pairs
PRISM_LANGUAGES == <<
    <<<<".", "p", "y">>, "python">>,   <<<<".", "j", "a", "v", "a">>, "c">>,       <<<<".", "c">>, "c">>,
    <<<<".", "h">>, "c">>,         <<<<".", "c", "p", "p">>, "cpp">>,      <<<<".", "c", "c">>, "cpp">>,
    <<<<".", "c", "x", "x">>, "cpp">>,     <<<<".", "h", "p", "p">>, "cpp">>,      <<<<".", "j", "s">>, "javascript">>,
    <<<<".", "t", "s">>, "typescript">>, <<<<".", "t", "s", "x">>, "tsx">>,    <<<<".", "j", "s", "x">>, "jsx">>,
    <<<<".", "r", "b">>, "ruby">>,     <<<<".", "g", "o">>, "go">>,        <<<<".", "r", "s">>, "rust">>,
    <<<<".", "p", "h", "p">>, "php">>,     <<<<".", "h", "t", "m", "l">>, "html">>,    <<<<".", "c", "s", "s">>, "css">>,
    <<<<".", "j", "s", "o", "n">>, "json">>,   <<<<".", "m", "d">>, "markdown">>,  <<<<".", "s", "q", "l">>, "sql">>,
    <<<<".", "s", "h">>, "bash">>,     <<<<".", "y", "m", "l">>, "yaml">>,     <<<<".", "y", "a", "m", "l">>, "yaml">> >>

\* lang.extensions.includes(ext)
Includes(seq, x) == \E i \in 1..Len(seq) : seq[i] = x

\* Get Prism language from filename
getPrismLanguage(filename) ==
    LET ext == ExtOf(filename) IN
    IF \E i \in 1..Len(PRISM_LANGUAGES) : PRISM_LANGUAGES[i][1] = ext
    THEN PRISM_LANGUAGES[CHOOSE i \in 1..Len(PRISM_LANGUAGES) : PRISM_LANGUAGES[i][1] = ext][2]
    ELSE "plaintext"

\* Detect language from file extension: the first table entry that lists it
detectLanguage(filename) ==
    LET ext == ExtOf(filename)
        hits == {i \in 1..Len(LANGUAGES) : Includes(LANGUAGES[i].extensions, ext)}
    IN  IF hits # {}
        THEN LANGUAGES[CHOOSE i \in hits : \A j \in hits : i <= j]
        ELSE LANGUAGES[1]

\* ---------------------------------------------------------------- base64

\* The base64 alphabet; a character's position, less one, is its six bits
B64Alphabet == <<"A", "B", "C", "D", "E", "F", "G", "H", "I", "J", "K", "L", "M", "N", "O", "P", "Q", "R", "S", "T", "U", "V", "W", "X", "Y", "Z", "a", "b", "c", "d", "e", "f", "g", "h", "i", "j", "k", "l", "m", "n", "o", "p", "q", "r", "s", "t", "u", "v", "w", "x", "y", "z", "0", "1", "2", "3", "4", "5", "6", "7", "8", "9", "+", "/">>

B64Value(c) == (CHOOSE i \in 1..Len(B64Alphabet) : B64Alphabet[i] = c) - 1

IsB64Char(c) == \E i \in 1..Len(B64Alphabet) : B64Alphabet[i] = c

IsAsciiWhitespace(c) == c \in {" ", "\n", "\t", "\r", "\f"}

\* The bytes of a run of base64 characters whose length is not 1 modulo 4
RECURSIVE B64Bytes(_)
B64Bytes(s) ==
    IF Len(s) = 0 THEN <<>>
    ELSE LET a == B64Value(s[1])
             b == B64Value(s[2])
         IN  IF Len(s) = 2 THEN <<a * 4 + (b \div 16)>>
             ELSE LET c == B64Value(s[3]) IN
                  IF Len(s) = 3
                  THEN <<a * 4 + (b \div 16), (b % 16) * 16 + (c \div 4)>>
                  ELSE <<a * 4 + (b \div 16), (b % 16) * 16 + (c \div 4),
                         (c % 4) * 64 + B64Value(s[4])>>
                       \o B64Bytes(SubSeq(s, 5, Len(s)))

\* window.atob: whitespace is dropped, one or two "=" are dropped from the
\* end of a text whose length is a multiple of 4, and what is left must be
\* base64 characters, not 1 modulo 4 in number; otherwise atob throws.
\* The result is a string with one character per byte.
atob(data) ==
    LET stripped == SelectSeq(data, LAMBDA c : ~IsAsciiWhitespace(c))
        n        == Len(stripped)
        unpadded == IF n % 4 = 0 /\ n >= 2 /\ stripped[n] = "=" /\ stripped[n-1] = "="
                    THEN SubSeq(stripped, 1, n - 2)
                    ELSE IF n % 4 = 0 /\ n >= 1 /\ stripped[n] = "="
                         THEN SubSeq(stripped, 1, n - 1)
                         ELSE stripped
        valid    == /\ Len(unpadded) % 4 # 1
                    /\ \A i \in 1..Len(unpadded) : IsB64Char(unpadded[i])
    IN  IF valid THEN [threw |-> FALSE, value |-> B64Bytes(unpadded)]
                 ELSE [threw |-> TRUE,  value |-> <<>>]

\* The base64 text of a byte string, padded with "="
RECURSIVE B64Encode(_)
B64Encode(bytes) ==
    IF Len(bytes) = 0 THEN <<>>
    ELSE LET x == bytes[1]
             y == IF Len(bytes) >= 2 THEN bytes[2] ELSE 0
             z == IF Len(bytes) >= 3 THEN bytes[3] ELSE 0
             c1 == B64Alphabet[(x \div 4) + 1]
             c2 == B64Alphabet[((x % 4) * 16 + (y \div 16)) + 1]
             c3 == B64Alphabet[((y % 16) * 4 + (z \div 64)) + 1]
             c4 == B64Alphabet[(z % 64) + 1]
         IN  IF Len(bytes) = 1 THEN <<c1, c2, "=", "=">>
             ELSE IF Len(bytes) = 2 THEN <<c1, c2, c3, "=">>
             ELSE <<c1, c2, c3, c4>> \o B64Encode(SubSeq(bytes, 4, Len(bytes)))

\* The "content" field the contents API returns for a file: the base64 text
\* followed by a line break, and the empty string for an empty file
ContentField(bytes) ==
    IF bytes = <<>> THEN <<>> ELSE B64Encode(bytes) \o <<"\n">>

\* ---------------------------------------------------------------- panels

AllPanels == {"code", "readme", "input", "output"}

\* Mutant of togglePanel: the identifier is added, never removed
MutTogglePanel(prev, panelId) == prev \cup {panelId}

\* The updater togglePanel hands to setHiddenPanels: prev -> next
togglePanel(prev, panelId) ==
    IF panelId \in prev THEN prev \ {panelId} ELSE prev \cup {panelId}

isPanelHidden(hidden, panelId) == panelId \in hidden

\* The render guards of the main panel group, in document order
CodePanelGuard(hidden) == ~isPanelHidden(hidden, "code")

\* Mutant of SeparatorAfterCode: the regions after it are not looked at
MutSeparatorAfterCode(hidden) == ~isPanelHidden(hidden, "code")

SeparatorAfterCode(hidden) ==
    /\ ~isPanelHidden(hidden, "code")
    /\ \/ ~isPanelHidden(hidden, "readme")
       \/ ~isPanelHidden(hidden, "input")
       \/ ~isPanelHidden(hidden, "output")

ReadmePanelGuard(hidden) == ~isPanelHidden(hidden, "readme")

\* Mutant of SeparatorAfterReadme: the regions after it are not looked at
MutSeparatorAfterReadme(hidden) == ~isPanelHidden(hidden, "readme")

SeparatorAfterReadme(hidden) ==
    /\ ~isPanelHidden(hidden, "readme")
    /\ \/ ~isPanelHidden(hidden, "input")
       \/ ~isPanelHidden(hidden, "output")

IoPanelGuard(hidden) ==
    \/ ~isPanelHidden(hidden, "input")
    \/ ~isPanelHidden(hidden, "output")

InputPanelGuard(hidden) == ~isPanelHidden(hidden, "input")

SeparatorInputOutput(hidden) ==
    /\ ~isPanelHidden(hidden, "input")
    /\ ~isPanelHidden(hidden, "output")

\* Mutant of OutputPanelGuard: the output panel is rendered with the IO panel
MutOutputPanelGuard(hidden) == TRUE

OutputPanelGuard(hidden) == ~isPanelHidden(hidden, "output")

\* What App returns: the loading screen while isLoading (no panel, no
\* control), otherwise the main group; the input panel, the output panel and
\* their separator are children of the IO panel.
Rendered(loading, hidden) ==
    IF loading THEN {"loading-screen"}
    ELSE {"sidebar"}
         \cup (IF CodePanelGuard(hidden) THEN {"code"} ELSE {})
         \cup (IF SeparatorAfterCode(hidden) THEN {"sep-code"} ELSE {})
         \cup (IF ReadmePanelGuard(hidden) THEN {"readme"} ELSE {})
         \cup (IF SeparatorAfterReadme(hidden) THEN {"sep-readme"} ELSE {})
         \cup (IF IoPanelGuard(hidden)
               THEN {"io"}
                    \cup (IF InputPanelGuard(hidden) THEN {"input"} ELSE {})
                    \cup (IF SeparatorInputOutput(hidden) THEN {"sep-io"} ELSE {})
                    \cup (IF OutputPanelGuard(hidden) THEN {"output"} ELSE {})
               ELSE {})

\* Mutant of RestoreButtons: the section is shown from two hidden panels on
MutRestoreButtons(loading, hidden) ==
    IF loading \/ Cardinality(hidden) <= 1 THEN {} ELSE hidden

\* The "Hidden Panels" restore buttons of the sidebar
RestoreButtons(loading, hidden) ==
    IF loading \/ Cardinality(hidden) = 0 THEN {} ELSE hidden

\* ------------------------------------------------- the remote repository
\* What the GitHub contents API answers for the repository the view is
\* mounted on.  A listing entry is a GitHubFile; three repositories are
\* explored.

Entry(name, path, type, url) ==
    [name |-> name, path |-> path, type |-> type, download_url |-> url]

Repos == {"demo", "mixed", "notes"}

\* Repositories of files whose names try the extension tables: upper case,
\* several dots, a trailing dot, a leading dot, no dot
DetectRepos == {"langs", "odd", "bare"}

DetectPaths == {"notes.Ts", "Main.JAVA", "c", "lib.Cpp", "Makefile", "x.", "archive.tar.GZ", ".RB", "go"}

Listing(r, path) ==
    CASE r = "demo" /\ path = "" ->
           << Entry(<<"s", "r", "c">>, "src", "dir", ""),
              Entry(<<"m", "a", "i", "n", ".", "p", "y">>, "main.py", "file", "raw/main.py") >>
      [] r = "demo" /\ path = "src" ->
           << Entry(<<"l", "i", "b", ".", "p", "y">>, "src/lib.py", "file", "raw/src/lib.py") >>
      [] r = "mixed" /\ path = "" ->
           << Entry(<<"R", "e", "a", "d", "M", "e", ".", "m", "d">>, "ReadMe.md", "file", "raw/ReadMe.md"),
              Entry(<<"d", "o", "c", "s">>, "docs", "dir", ""),
              Entry(<<"p", "k", "g">>, "pkg", "dir", ""),
              Entry(<<"e", "m", "p", "t", "y", ".", "r", "b">>, "empty.rb", "file", "raw/empty.rb") >>
      [] r = "mixed" /\ path = "docs" -> << >>
      [] r = "mixed" /\ path = "pkg" ->
           << Entry(<<"i", "n", "n", "e", "r">>, "pkg/inner", "dir", ""),
              Entry(<<"U", "t", "i", "l", ".", "J", "A", "V", "A">>, "pkg/Util.JAVA", "file", "raw/pkg/Util.JAVA") >>
      [] r = "mixed" /\ path = "pkg/inner" ->
           << Entry(<<"d", "e", "e", "p", ".", "c">>, "pkg/inner/deep.c", "file", "raw/pkg/inner/deep.c") >>
      [] r = "notes" /\ path = "" ->
           << Entry(<<"n", "o", "t", "e", "s", ".", "t", "x", "t">>, "notes.txt", "file", "raw/notes.txt") >>
      [] r = "langs" /\ path = "" ->
           << Entry(<<"n", "o", "t", "e", "s", ".", "T", "s">>, "notes.Ts", "file", "raw/notes.Ts"),
              Entry(<<"M", "a", "i", "n", ".", "J", "A", "V", "A">>, "Main.JAVA", "file", "raw/Main.JAVA"),
              Entry(<<"c">>, "c", "file", "raw/c"),
              Entry(<<"l", "i", "b", ".", "C", "p", "p">>, "lib.Cpp", "file", "raw/lib.Cpp") >>
      [] r = "odd" /\ path = "" ->
           << Entry(<<"M", "a", "k", "e", "f", "i", "l", "e">>, "Makefile", "file", "raw/Makefile"),
              Entry(<<"x", ".">>, "x.", "file", "raw/x."),
              Entry(<<"a", "r", "c", "h", "i", "v", "e", ".", "t", "a", "r", ".", "G", "Z">>, "archive.tar.GZ", "file", "raw/archive.tar.GZ"),
              Entry(<<".", "R", "B">>, ".RB", "file", "raw/.RB") >>
      [] r = "bare" /\ path = "" ->
           << Entry(<<"g", "o">>, "go", "file", "raw/go"),
              Entry(<<"m", "a", "i", "n", ".", "p", "y">>, "main.py", "file", "raw/main.py") >>
      [] OTHER -> << >>

\* The bytes of each file
FileBytes(path) ==
    CASE path = "main.py"          -> <<112, 10>>
      [] path = "src/lib.py"       -> <<120, 61, 49>>
      [] path = "pkg/Util.JAVA"    -> <<99>>
      [] path = "pkg/inner/deep.c" -> <<255, 0, 10, 59>>
      [] path = "notes.txt"        -> <<110>>
      [] path = "ReadMe.md"        -> <<35, 32, 104>>
      [] path \in DetectPaths     -> <<47, 47>>
      [] OTHER                     -> << >>

\* The text the raw download of the README returns
ReadmeText == <<"#", " ", "h">>

\* ----------------------------------------------------------------- state

VARIABLES
    repo,            \* useParams: the repository the view is mounted on
    files,           \* FileTreeItem[]
    activeFile,      \* path of the selected file, "" when none
    code,            \* the displayed file content, one character code each
    readme,
    input,
    output,
    language,        \* an entry of LANGUAGES
    prismLanguage,
    isRunning,
    isLoading,
    dropdownOpen,
    expandedFolders,
    isTransitioning,
    codeFontSize,
    hiddenPanels,
    loadPc,          \* where fetchRepoContents is suspended
    loadData,        \* its local "data": the root listing
    stack,           \* the suspended buildTree calls, outermost first
    fileFetches,     \* fetchFileContent calls awaiting their response
    runs,            \* handleRun calls awaiting their response
    lastEvent,       \* history: the handler or continuation that ran last
    budget,          \* user events left to explore; negative: no limit
    server,          \* the execute function (api/execute): its environment,
                     \* the request it serves, its upstream calls, its response
    hub              \* the hub view (Hub): its useState cells, its list fetch

cells == <<files, activeFile, code, readme, input, output, language,
           prismLanguage, isRunning, isLoading, dropdownOpen, expandedFolders,
           isTransitioning, codeFontSize, hiddenPanels>>

vars == <<repo, files, activeFile, code, readme, input, output, language,
          prismLanguage, isRunning, isLoading, dropdownOpen, expandedFolders,
          isTransitioning, codeFontSize, hiddenPanels, loadPc, loadData, stack,
          fileFetches, runs, lastEvent, budget, server, hub>>

\* ---------------------------------------------------------------- bounds

\* File-content requests that may be awaiting a response at once
MaxInFlight == 2

\* User events explored when every handler of the view is enabled (Spec)
MaxEvents == 2

\* Repositories in an answer of the repository list API
MaxRepos == 2

\* The initial font size, useState(13)
InitialFontSize == 13

\* ------------------------------------------------- the execute function

\* The serverless function behind /api/execute (handler, src/README.md).
\* A JavaScript value is a kind and its text; a JSON object is a function
\* from its keys to values, a key whose value is undefined being absent.
Undefined == [t |-> "undefined", v |-> ""]

Null == [t |-> "null", v |-> ""]

Str(text) == [t |-> "string", v |-> text]

Num(text) == [t |-> "number", v |-> text]

\* ToBoolean, as || and ! apply it
Truthy(x) ==
    CASE x.t = "string" -> x.v # ""
      [] x.t = "number" -> x.v \notin {"0", "NaN"}
      [] OTHER          -> FALSE

\* JSON.stringify of an object literal: keys whose value is undefined are
\* left out
JSONStringify(obj) ==
    [k \in {key \in DOMAIN obj : obj[key] # Undefined} |-> obj[k]]

\* Reading a property of a parsed JSON object
Get(obj, key) == IF key \in DOMAIN obj THEN obj[key] ELSE Undefined

\* process.env.JDOODLE_CLIENT_ID and process.env.JDOODLE_CLIENT_SECRET
CredentialValues == {Undefined, Str(""), Str("id-or-secret")}

Envs == [clientId : CredentialValues, clientSecret : CredentialValues]

ConfiguredEnv == [clientId |-> Str("id-or-secret"), clientSecret |-> Str("id-or-secret")]

Methods == {"POST", "GET", "PUT"}

\* req.body: << >> when the request has no JSON body, else <<object>>
Bodies ==
    {<<>>} \cup
    {<<JSONStringify([script |-> a, stdin |-> b, language |-> c, versionIndex |-> d])>> :
        a \in {Undefined, Str("print(input())")},
        b \in {Undefined, Str(""), Str("5")},
        c \in {Undefined, Str("python3")},
        d \in {Undefined, Null, Str(""), Str("0"), Str("4"), Num("0"), Num("3")}}

\* What the call to the execution API may come to: a JSON answer (the API
\* answers errors in JSON too), a throw of fetch, a body that is not JSON
UpstreamOutcomes ==
    {[kind |-> "json", data |-> d] :
        d \in {[output |-> Str("5"), statusCode |-> Num("200"), isExecutionSuccess |-> Str("true")],
               [error |-> Str("Unauthorized Request"), statusCode |-> Num("401")]}}
    \cup {[kind |-> "network-error", data |-> [message |-> Str("fetch failed")]],
          [kind |-> "bad-json", data |-> [message |-> Str("Unexpected token < in JSON")]]}

ServerIdle(env) ==
    [env  |-> env,       \* process.env, fixed when the function is deployed
     pc   |-> "idle",    \* idle, upstream (awaiting the fetch) or responded
     req  |-> <<>>,      \* the request being served: method and body
     sent |-> <<>>,      \* the bodies of the calls made to the execution API
     got  |-> <<>>,      \* what the call came to, once it has settled
     res  |-> <<>>]      \* the response: status and JSON payload

\* The function as deployed for the editor: both credentials set
Deployed == server = ServerIdle(ConfiguredEnv)

\* res.status(status).json(json)
Respond(status, json) == <<[status |-> status, json |-> json]>>

\* Mutant of MethodAllowed: PUT is served as POST is
MutMethodAllowed(method) == method \in {"POST", "PUT"}

\* Only allow POST requests
MethodAllowed(method) == method = "POST"

\* Mutant of CredentialsConfigured: the secret is not looked at
MutCredentialsConfigured(env) == Truthy(env.clientId)

\* !(!clientId || !clientSecret)
CredentialsConfigured(env) == Truthy(env.clientId) /\ Truthy(env.clientSecret)

\* Mutant of UpstreamBody: versionIndex is sent as '0' whatever was received
MutUpstreamBody(env, body) ==
    JSONStringify([clientId     |-> env.clientId,
                   clientSecret |-> env.clientSecret,
                   script       |-> Get(body, "script"),
                   stdin        |-> Get(body, "stdin"),
                   language     |-> Get(body, "language"),
                   versionIndex |-> Str("0")])

\* The body of the call to the execution API
UpstreamBody(env, body) ==
    JSONStringify([clientId     |-> env.clientId,
                   clientSecret |-> env.clientSecret,
                   script       |-> Get(body, "script"),
                   stdin        |-> Get(body, "stdin"),
                   language     |-> Get(body, "language"),
                   versionIndex |-> IF Truthy(Get(body, "versionIndex"))
                                    THEN Get(body, "versionIndex")
                                    ELSE Str("0")])

\* Mutant of handlerCatch: the failure is answered with status 200
MutHandlerCatch(message) ==
    Respond(200, [error |-> Str("Failed to execute code"), details |-> message])

\* The catch of handler
handlerCatch(message) ==
    Respond(500, [error |-> Str("Failed to execute code"), details |-> message])

\* handler, from its call to its return or to the await of the upstream
\* fetch.  Destructuring a body that is undefined throws inside the try.
handler(method, body) ==
    /\ server.pc \in {"idle", "responded"}
    /\ server' =
         LET req  == <<[method |-> method, body |-> body]>>
             base == [server EXCEPT !.req = req, !.sent = <<>>, !.got = <<>>, !.res = <<>>]
         IN  IF ~MethodAllowed(method)
             THEN [base EXCEPT !.pc = "responded",
                      !.res = Respond(405, [error |-> Str("Method not allowed")])]
             ELSE IF ~CredentialsConfigured(server.env)
             THEN [base EXCEPT !.pc = "responded",
                      !.res = Respond(500, [error |-> Str("API credentials not configured")])]
             ELSE IF body = <<>>
             THEN [base EXCEPT !.pc = "responded",
                      !.res = handlerCatch(Str("Cannot destructure property 'script' of 'req.body' as it is undefined."))]
             ELSE [base EXCEPT !.pc = "upstream",
                      !.sent = <<UpstreamBody(server.env, body[1])>>]
    /\ UNCHANGED <<hub, repo, cells, loadPc, loadData, stack, fileFetches, runs,
                   lastEvent, budget>>

\* handler from the await of the upstream fetch on: the answer is relayed
\* with status 200, a throw of fetch or of response.json() lands in the catch
UpstreamSettles(outcome) ==
    /\ server.pc = "upstream"
    /\ server' = [server EXCEPT !.pc = "responded",
                      !.got = <<outcome>>,
                      !.res = IF outcome.kind = "json"
                              THEN Respond(200, outcome.data)
                              ELSE handlerCatch(outcome.data.message)]
    /\ UNCHANGED <<hub, repo, cells, loadPc, loadData, stack, fileFetches, runs,
                   lastEvent, budget>>

\* ---------------------------------------------------------- the hub view

\* Hub (src/unnamed/part_000): the list of repositories, fetched once on
\* mount.  A repository of the API's answer: its name and its language
\* (<< >> for null).
Repository(name, lang) == [name |-> name, language |-> lang]

ListedRepos == {
    Repository(<<"a", "l", "g", "o">>, <<<<"P", "y", "t", "h", "o", "n">>>>),
    Repository(<<"D", "u", "c", "k", "_", "C", "o", "m", "p", "i", "l", "e", "r">>, <<<<"T", "y", "p", "e", "S", "c", "r", "i", "p", "t">>>>),
    Repository(<<"s", "i", "t", "e">>, <<<<"H", "T", "M", "L">>>>),
    Repository(<<"n", "o", "t", "e", "s">>, <<>>),
    Repository(<<"B", "a", "h", "C", "a", "t", "e", "0", "6">>, <<>>) }

\* Repos to exclude (profile readme, this app, etc.)
excludedRepos == { <<"b", "a", "h", "c", "a", "t", "e", "0", "6">>, <<"d", "u", "c", "k", "_", "c", "o", "m", "p", "i", "l", "e", "r">> }

\* Languages that indicate web apps or complex projects
excludedLanguages == { <<"t", "y", "p", "e", "s", "c", "r", "i", "p", "t">>, <<"h", "t", "m", "l">>, <<"c", "s", "s">>, <<"v", "u", "e">>, <<"s", "v", "e", "l", "t", "e">> }

\* The filter of fetchRepositories
Excluded(r) ==
    \/ toLowerCase(r.name) \in excludedRepos
    \/ r.language # <<>> /\ toLowerCase(r.language[1]) \in excludedLanguages

\* data.filter(...).map(...): the order of the answer is kept
RECURSIVE FilterRepos(_)
FilterRepos(data) ==
    IF data = <<>> THEN <<>>
    ELSE (IF Excluded(Head(data)) THEN <<>> ELSE <<Head(data)>>)
         \o FilterRepos(Tail(data))

\* The answers of the list API: no repository twice, MaxRepos at most
RECURSIVE RepoLists(_)
RepoLists(n) ==
    IF n = 0 THEN {<<>>}
    ELSE RepoLists(n - 1) \cup
         {Append(l, r) : l \in {x \in RepoLists(n - 1) : Len(x) = n - 1},
                         r \in ListedRepos}

\* What the list fetch may come to; message is the thrown error's message
HubOutcomes ==
    {[kind |-> "ok", data |-> d, message |-> ""] :
        d \in {l \in RepoLists(MaxRepos) :
                  \A i, j \in 1..Len(l) : l[i] = l[j] => i = j}}
    \cup {[kind |-> "not-ok", data |-> <<>>, message |-> "Failed to fetch repositories"],
          [kind |-> "network-error", data |-> <<>>, message |-> "Failed to fetch"],
          [kind |-> "bad-json", data |-> <<>>, message |-> "Unexpected end of JSON input"]}

\* The hub after its first render and effect: the list fetch is awaited
HubMounted ==
    [pc              |-> "fetching",  \* fetching, settled, or left (unmounted)
     repositories    |-> <<>>,
     isLoading       |-> TRUE,
     error           |-> <<>>,        \* << >> for null, else <<message>>
     isTransitioning |-> FALSE,
     requests        |-> 1,           \* list fetches issued
     got             |-> <<>>,        \* what the list fetch came to
     went            |-> ""]          \* where the browser went from the hub

\* The editor view is on screen: the hub is not mounted
HubLeft == hub = [HubMounted EXCEPT !.pc = "left", !.requests = 0]

\* Mutant of the catch of fetchRepositories: the failure is only logged
MutFetchRepositoriesCatch(h, message) == h

\* The catch of fetchRepositories
fetchRepositoriesCatch(h, message) == [h EXCEPT !.error = <<message>>]

\* fetchRepositories from its await on, finally included
fetchRepositories(outcome) ==
    /\ hub.pc = "fetching"
    /\ hub.went = ""
    /\ hub' = LET settled == [hub EXCEPT !.pc = "settled", !.got = <<outcome>>,
                                         !.isLoading = FALSE]
              IN  IF outcome.kind = "ok"
                  THEN [settled EXCEPT !.repositories = FilterRepos(outcome.data)]
                  ELSE fetchRepositoriesCatch(settled, outcome.message)
    /\ UNCHANGED <<server, repo, cells, loadPc, loadData, stack, fileFetches,
                   runs, lastEvent, budget>>

\* The cards the hub shows: none while loading or when error is truthy
HubCards ==
    IF hub.isLoading \/ (hub.error # <<>> /\ hub.error[1] # "") THEN {}
    ELSE {hub.repositories[i] : i \in 1..Len(hub.repositories)}

\* A click on a repository card: navigate to the editor view of it
RepoCardClick(r) ==
    /\ hub.pc # "left"
    /\ hub.went = ""
    /\ r \in HubCards
    /\ hub' = [hub EXCEPT !.went = "editor", !.pc = "left"]
    /\ UNCHANGED <<server, repo, cells, loadPc, loadData, stack, fileFetches,
                   runs, lastEvent, budget>>

\* The hub's logo: the transition starts, the timer is set
HubLogoClick ==
    /\ hub.pc # "left"
    /\ hub.went = ""
    /\ hub' = [hub EXCEPT !.isTransitioning = TRUE]
    /\ UNCHANGED <<server, repo, cells, loadPc, loadData, stack, fileFetches,
                   runs, lastEvent, budget>>

\* The logo's timer fires: the browser leaves for the owner's GitHub page
HubLogoTimeout ==
    /\ hub.pc # "left"
    /\ hub.isTransitioning
    /\ hub.went = ""
    /\ hub' = [hub EXCEPT !.went = "github", !.pc = "left"]
    /\ UNCHANGED <<server, repo, cells, loadPc, loadData, stack, fileFetches,
                   runs, lastEvent, budget>>

\* --------------------------------------------------------------- mount

\* The record kept in lastEvent: the handler, which way it went, and the
\* path it was about
Event(name, detail, path) == [handler |-> name, detail |-> detail, path |-> path]

\* The state after the first render and its effect: every cell holds its
\* useState value, fetchRepoContents has set isLoading and awaits the root
\* listing.
Mounted ==
    /\ files = <<>>
    /\ activeFile = ""
    /\ code = <<>>
    /\ readme = <<>>
    /\ input = <<>>
    /\ output = <<>>
    /\ language = LANGUAGES[1]
    /\ prismLanguage = "python"
    /\ isRunning = FALSE
    /\ isLoading = TRUE
    /\ dropdownOpen = FALSE
    /\ expandedFolders = {}
    /\ isTransitioning = FALSE
    /\ codeFontSize = InitialFontSize
    /\ hiddenPanels = {}
    /\ loadPc = "root"
    /\ loadData = <<>>
    /\ stack = <<>>
    /\ fileFetches = <<>>
    /\ runs = <<>>
    /\ lastEvent = Event("mount", "", "")

Init == repo \in Repos /\ Mounted /\ budget = MaxEvents /\ Deployed /\ HubLeft

InitFree == repo \in Repos /\ Mounted /\ budget = -1 /\ Deployed /\ HubLeft

\* The view mounted on one of the repositories of DetectRepos
InitDetect == repo \in DetectRepos /\ Mounted /\ budget = -1 /\ Deployed /\ HubLeft

\* A handler run by a user event: the controls exist only once the loading
\* screen is gone
UserEvent ==
    /\ ~isLoading
    /\ budget # 0
    /\ budget' = IF budget > 0 THEN budget - 1 ELSE budget

\* ------------------------------------------------------ repository load

FileNode(item) == [name |-> item.name, path |-> item.path, type |-> "file"]

FolderNode(item, children) ==
    [name |-> item.name, path |-> item.path, type |-> "folder", children |-> children]

Frame(items) == [items |-> items, i |-> 1, tree |-> <<>>]

\* Mutant of buildTree: a folder is put before the entries already built
RECURSIVE MutBuildTree(_)
MutBuildTree(st) ==
    LET top  == st[Len(st)]
        rest == SubSeq(st, 1, Len(st) - 1)
    IN  IF top.i > Len(top.items)
        THEN IF Len(st) = 1
             THEN [done |-> TRUE, tree |-> top.tree, stack |-> <<>>]
             ELSE LET caller == st[Len(st) - 1]
                      node   == FolderNode(caller.items[caller.i], top.tree)
                  IN  MutBuildTree(SubSeq(st, 1, Len(st) - 2)
                                   \o <<[caller EXCEPT !.tree = <<node>> \o @,
                                                       !.i = @ + 1]>>)
        ELSE IF top.items[top.i].type = "dir"
             THEN [done |-> FALSE, tree |-> <<>>, stack |-> st]
             ELSE MutBuildTree(rest \o <<[top EXCEPT
                                   !.tree = Append(@, FileNode(top.items[top.i])),
                                   !.i = @ + 1]>>)

\* Mutant of buildTree: a folder node replaces the entries built before it
RECURSIVE MutBuildTreeReplaces(_)
MutBuildTreeReplaces(st) ==
    LET top  == st[Len(st)]
        rest == SubSeq(st, 1, Len(st) - 1)
    IN  IF top.i > Len(top.items)
        THEN IF Len(st) = 1
             THEN [done |-> TRUE, tree |-> top.tree, stack |-> <<>>]
             ELSE LET caller == st[Len(st) - 1]
                      node   == FolderNode(caller.items[caller.i], top.tree)
                  IN  MutBuildTreeReplaces(SubSeq(st, 1, Len(st) - 2)
                                   \o <<[caller EXCEPT !.tree = <<node>>,
                                                       !.i = @ + 1]>>)
        ELSE IF top.items[top.i].type = "dir"
             THEN [done |-> FALSE, tree |-> <<>>, stack |-> st]
             ELSE MutBuildTreeReplaces(rest \o <<[top EXCEPT
                                   !.tree = Append(@, FileNode(top.items[top.i])),
                                   !.i = @ + 1]>>)

\* buildTree, run from where it resumes to its next await.  Each frame is
\* one call: its items, the index of the for-loop, its local tree.  The
\* result says whether the outermost call returned (and its tree) or a
\* folder listing is awaited.
RECURSIVE buildTree(_)
buildTree(st) ==
    LET top  == st[Len(st)]
        rest == SubSeq(st, 1, Len(st) - 1)
    IN  IF top.i > Len(top.items)
        THEN IF Len(st) = 1
             THEN [done |-> TRUE, tree |-> top.tree, stack |-> <<>>]
             ELSE LET caller == st[Len(st) - 1]
                      node   == FolderNode(caller.items[caller.i], top.tree)
                  IN  buildTree(SubSeq(st, 1, Len(st) - 2)
                                \o <<[caller EXCEPT !.tree = Append(@, node),
                                                    !.i = @ + 1]>>)
        ELSE IF top.items[top.i].type = "dir"
             THEN [done |-> FALSE, tree |-> <<>>, stack |-> st]
             ELSE buildTree(rest \o <<[top EXCEPT
                                !.tree = Append(@, FileNode(top.items[top.i])),
                                !.i = @ + 1]>>)

\* LANGUAGES.some(l => l.extensions.includes(ext))
IsCodeExtension(ext) ==
    \E i \in 1..Len(LANGUAGES) : Includes(LANGUAGES[i].extensions, ext)

\* Select first code file automatically: <<item>>, or << >> for null
RECURSIVE findFirstCodeFile(_)
findFirstCodeFile(items) ==
    IF items = <<>> THEN <<>>
    ELSE LET item  == Head(items)
             found == IF item.type = "file"
                      THEN IF IsCodeExtension(ExtOf(item.name)) THEN <<item>> ELSE <<>>
                      ELSE findFirstCodeFile(item.children)
         IN  IF found # <<>> THEN found ELSE findFirstCodeFile(Tail(items))

\* data.find(f => f.name.toLowerCase() === 'readme.md'): << >> when none
FindReadme(data) ==
    LET hits == {i \in 1..Len(data) : toLowerCase(data[i].name) = <<"r", "e", "a", "d", "m", "e", ".", "m", "d">>}
    IN  IF hits = {} THEN <<>>
        ELSE <<data[CHOOSE i \in hits : \A j \in hits : i <= j]>>

\* finally of fetchRepoContents; loadPc ends "done" when the try block ran
\* to its end and "failed" when the catch ran (it only logs)
LoadFinally(end) ==
    /\ isLoading' = FALSE
    /\ loadPc' = end
    /\ stack' = <<>>

\* The end of the try block: the first code file is selected and its
\* content requested, then finally runs.
SelectFirstCodeFile(fileTree) ==
    LET firstCodeFile == findFirstCodeFile(fileTree) IN
    /\ IF firstCodeFile # <<>>
       THEN /\ activeFile' = firstCodeFile[1].path
            /\ fileFetches' = Append(fileFetches,
                   [path |-> firstCodeFile[1].path, filename |-> firstCodeFile[1].name])
       ELSE UNCHANGED <<activeFile, fileFetches>>
    /\ LoadFinally("done")

\* From the return of the outermost buildTree: setFiles, then the README
\* fetch when the root listing has one with a download_url
AfterBuildTree(fileTree, data) ==
    /\ files' = fileTree
    /\ LET readmeFile == FindReadme(data) IN
       IF readmeFile # <<>> /\ readmeFile[1].download_url # ""
       THEN /\ loadPc' = "readme"
            /\ stack' = <<>>
            /\ UNCHANGED <<activeFile, fileFetches, isLoading>>
       ELSE SelectFirstCodeFile(fileTree)

\* buildTree resumed on st, and what follows when it returns
ResumeBuildTree(st, data) ==
    LET r == buildTree(st) IN
    IF r.done
    THEN AfterBuildTree(r.tree, data)
    ELSE /\ loadPc' = "folder"
         /\ stack' = r.stack
         /\ UNCHANGED <<files, activeFile, fileFetches, isLoading>>

\* Mutant of the catch of fetchRepoContents: what the outermost buildTree
\* had built is kept
MutLoadThrows ==
    /\ LoadFinally("failed")
    /\ files' = IF stack # <<>> THEN stack[1].tree ELSE files
    /\ UNCHANGED <<activeFile, fileFetches>>

LoadThrows ==
    /\ LoadFinally("failed")
    /\ UNCHANGED <<files, activeFile, fileFetches>>

\* The root listing arrives, or its fetch fails
RootListingResponse(outcome) ==
    /\ loadPc = "root"
    /\ lastEvent' = Event("fetchRepoContents", outcome, "")
    /\ IF outcome = "ok"
       THEN /\ loadData' = Listing(repo, "")
            /\ ResumeBuildTree(<<Frame(Listing(repo, ""))>>, Listing(repo, ""))
       ELSE /\ LoadThrows
            /\ UNCHANGED loadData
    /\ UNCHANGED <<hub, server, repo, code, readme, input, output, language, prismLanguage,
                   isRunning, dropdownOpen, expandedFolders, isTransitioning,
                   codeFontSize, hiddenPanels, runs, budget>>

\* The listing of the folder buildTree waits for arrives, or fails
FolderListingResponse(outcome) ==
    /\ loadPc = "folder"
    /\ lastEvent' = Event("fetchRepoContents", outcome, stack[Len(stack)].items[stack[Len(stack)].i].path)
    /\ LET top  == stack[Len(stack)]
           item == top.items[top.i]
       IN  IF outcome = "ok"
           THEN ResumeBuildTree(stack \o <<Frame(Listing(repo, item.path))>>, loadData)
           ELSE LoadThrows
    /\ UNCHANGED <<hub, server, repo, code, readme, input, output, language, prismLanguage,
                   isRunning, dropdownOpen, expandedFolders, isTransitioning,
                   codeFontSize, hiddenPanels, loadData, runs, budget>>

\* Mutant of ReadmeResponse: a failed README fetch is passed over and the
\* first code file selected all the same
MutReadmeResponse(outcome) ==
    /\ loadPc = "readme"
    /\ lastEvent' = Event("fetchRepoContents", outcome, "readme")
    /\ IF outcome = "ok"
       THEN /\ readme' = ReadmeText
            /\ SelectFirstCodeFile(files)
       ELSE /\ SelectFirstCodeFile(files)
            /\ UNCHANGED readme
    /\ UNCHANGED <<hub, server, repo, files, code, input, output, language, prismLanguage,
                   isRunning, dropdownOpen, expandedFolders, isTransitioning,
                   codeFontSize, hiddenPanels, loadData, runs, budget>>

\* The README text arrives, or its fetch fails
ReadmeResponse(outcome) ==
    /\ loadPc = "readme"
    /\ lastEvent' = Event("fetchRepoContents", outcome, "readme")
    /\ IF outcome = "ok"
       THEN /\ readme' = ReadmeText
            /\ SelectFirstCodeFile(files)
       ELSE /\ LoadThrows
            /\ UNCHANGED readme
    /\ UNCHANGED <<hub, server, repo, files, code, input, output, language, prismLanguage,
                   isRunning, dropdownOpen, expandedFolders, isTransitioning,
                   codeFontSize, hiddenPanels, loadData, runs, budget>>

ListingOutcomes == {"ok", "network-error", "not-ok", "bad-json"}

\* buildTree does not test folderResponse.ok: the JSON of an error answer is
\* an object, and the for-of over it in the nested call throws
FolderOutcomes == {"ok", "network-error", "not-ok", "bad-json"}

ReadmeOutcomes == {"ok", "network-error"}

LoadStep ==
    \/ \E o \in ListingOutcomes : RootListingResponse(o)
    \/ \E o \in FolderOutcomes : FolderListingResponse(o)
    \/ \E o \in ReadmeOutcomes : ReadmeResponse(o)

\* ---------------------------------------------------------------- panels

\* A click on a panel's hide button, or on its restore button in the sidebar
TogglePanelClick(panelId) ==
    /\ UserEvent
    /\ \/ panelId \in Rendered(isLoading, hiddenPanels)
       \/ panelId \in RestoreButtons(isLoading, hiddenPanels)
    /\ hiddenPanels' = togglePanel(hiddenPanels, panelId)
    /\ lastEvent' = Event("togglePanel", panelId, "")
    /\ UNCHANGED <<hub, server, repo, files, activeFile, code, readme, input, output, language,
                   prismLanguage, isRunning, isLoading, dropdownOpen,
                   expandedFolders, isTransitioning, codeFontSize, loadPc,
                   loadData, stack, fileFetches, runs>>

\* -------------------------------------------------------- file selection

\* The items renderFileTree shows: a folder's children only while the
\* folder's path is in expandedFolders
RECURSIVE VisibleItems(_, _)
VisibleItems(items, expanded) ==
    IF items = <<>> THEN {}
    ELSE LET item == Head(items) IN
         {item}
         \cup (IF item.type = "folder" /\ item.path \in expanded
               THEN VisibleItems(item.children, expanded) ELSE {})
         \cup VisibleItems(Tail(items), expanded)

\* The updater toggleFolder hands to setExpandedFolders
toggleFolder(prev, folderName) ==
    IF folderName \in prev THEN prev \ {folderName} ELSE prev \cup {folderName}

\* A click on an item of the file tree: a folder opens or closes, a file
\* becomes the active file and its content is requested
handleFileClick(item) ==
    /\ UserEvent
    /\ item \in VisibleItems(files, expandedFolders)
    /\ IF item.type = "folder"
       THEN /\ expandedFolders' = toggleFolder(expandedFolders, item.path)
            /\ lastEvent' = Event("toggleFolder", "", item.path)
            /\ UNCHANGED <<activeFile, fileFetches>>
       ELSE /\ Len(fileFetches) < MaxInFlight
            /\ activeFile' = item.path
            /\ fileFetches' = Append(fileFetches,
                                     [path |-> item.path, filename |-> item.name])
            /\ lastEvent' = Event("handleFileClick", "", item.path)
            /\ UNCHANGED expandedFolders
    /\ UNCHANGED <<hub, server, repo, files, code, readme, input, output, language,
                   prismLanguage, isRunning, isLoading, dropdownOpen,
                   isTransitioning, codeFontSize, hiddenPanels, loadPc, loadData,
                   stack, runs>>

\* What the fetch of a file's content may come to.  kind says which:
\*   ok             the API's answer for the file, content in base64
\*   bad-character  a content that is not base64
\*   bad-length     a content one character too long
\*   no-content     a JSON answer without a content field
\*   bad-json       response.json() throws
\*   network-error  fetch throws
FileResponse(kind, path) ==
    CASE kind = "ok" ->
           [kind |-> kind, threw |-> FALSE, content |-> <<ContentField(FileBytes(path))>>]
      [] kind = "bad-character" ->
           [kind |-> kind, threw |-> FALSE, content |-> <<<<"c", "H", "J", "!">>>>]
      [] kind = "bad-length" ->
           [kind |-> kind, threw |-> FALSE, content |-> <<<<"c", "H", "J", "p", "b">>>>]
      [] kind = "no-content" ->
           [kind |-> kind, threw |-> FALSE, content |-> <<>>]
      [] OTHER ->
           [kind |-> kind, threw |-> TRUE, content |-> <<>>]

FileResponseKinds ==
    {"ok", "bad-character", "bad-length", "no-content", "bad-json", "network-error"}

\* Mutant of fetchFileContent: the syntax name is not set with the code
MutFetchFileContentCodeOnly(resp, filename, old) ==
    IF resp.threw THEN old
    ELSE IF resp.content = <<>> \/ resp.content[1] = <<>>
    THEN old
    ELSE LET content == atob(resp.content[1]) IN
         IF content.threw THEN old
         ELSE [code          |-> content.value,
               language      |-> detectLanguage(filename),
               prismLanguage |-> old.prismLanguage]

\* Mutant of fetchFileContent: when atob throws, the code shown is cleared
MutFetchFileContent(resp, filename, old) ==
    IF resp.threw THEN old
    ELSE IF resp.content = <<>> \/ resp.content[1] = <<>>
    THEN old
    ELSE LET content == atob(resp.content[1]) IN
         IF content.threw THEN [old EXCEPT !.code = <<>>]
         ELSE [code          |-> content.value,
               language      |-> detectLanguage(filename),
               prismLanguage |-> getPrismLanguage(filename)]

\* The body of fetchFileContent from the response on: the new values of
\* code, language and prismLanguage, given the old ones.  A throw of fetch,
\* of response.json() or of atob lands in the catch, which only logs.
fetchFileContent(resp, filename, old) ==
    IF resp.threw THEN old
    ELSE IF resp.content = <<>> \/ resp.content[1] = <<>>      \* if (data.content)
    THEN old
    ELSE LET content == atob(resp.content[1]) IN
         IF content.threw THEN old
         ELSE [code          |-> content.value,
               language      |-> detectLanguage(filename),
               prismLanguage |-> getPrismLanguage(filename)]

RemoveAt(seq, i) == SubSeq(seq, 1, i - 1) \o SubSeq(seq, i + 1, Len(seq))

\* The response to the i-th outstanding file request arrives
FileContentResponse(i, kind) ==
    /\ i \in 1..Len(fileFetches)
    /\ LET req == fileFetches[i]
           new == fetchFileContent(FileResponse(kind, req.path), req.filename,
                      [code |-> code, language |-> language,
                       prismLanguage |-> prismLanguage])
       IN  /\ code' = new.code
           /\ language' = new.language
           /\ prismLanguage' = new.prismLanguage
           /\ lastEvent' = Event("fetchFileContent", kind, req.path)
    /\ fileFetches' = RemoveAt(fileFetches, i)
    /\ UNCHANGED <<hub, server, repo, files, activeFile, readme, input, output, isRunning,
                   isLoading, dropdownOpen, expandedFolders, isTransitioning,
                   codeFontSize, hiddenPanels, loadPc, loadData, stack, runs,
                   budget>>

\* ------------------------------------------------------------------- run

\* seg occurs in text at position pos
OccursAt(text, seg, pos) ==
    /\ pos >= 1
    /\ pos + Len(seg) - 1 <= Len(text)
    /\ \A k \in 1..Len(seg) : text[pos + k - 1] = seg[k]

\* The characters "." does not match
IsLineTerminator(c) == c \in {"\n", "\r"}

\* RegExp.prototype.test for a case-insensitive pattern made of literal
\* segments joined by ".*": the segments occur in order, without overlap,
\* and no line terminator lies between two of them
RECURSIVE MatchFrom(_, _, _)
MatchFrom(text, segs, from) ==
    IF segs = <<>> THEN TRUE
    ELSE \E pos \in from..(Len(text) + 1) :
            /\ OccursAt(text, Head(segs), pos)
            /\ \A k \in from..(pos - 1) : ~IsLineTerminator(text[k])
            /\ MatchFrom(text, Tail(segs), pos + Len(Head(segs)))

RegExpTest(segs, text) ==
    LET folded == toLowerCase(text) IN
    \E pos \in 1..(Len(folded) + 1) :
        /\ OccursAt(folded, Head(segs), pos)
        /\ MatchFrom(folded, Tail(segs), pos + Len(Head(segs)))

\* inputErrorPatterns, lower-cased (the patterns carry the i flag); an
\* alternation is listed as its alternatives
inputErrorPatterns == <<
    <<<<"n", "o", "s", "u", "c", "h", "e", "l", "e", "m", "e", "n", "t", "e", "x", "c", "e", "p", "t", "i", "o", "n">>>>,
    <<<<"n", "o", " ", "l", "i", "n", "e", " ", "f", "o", "u", "n", "d">>>>,
    <<<<"e", "o", "f", " ", "w", "h", "e", "n", " ", "r", "e", "a", "d", "i", "n", "g">>>>,
    <<<<"e", "o", "f", "e", "r", "r", "o", "r">>>>,
    <<<<"e", "x", "p", "e", "c", "t", "e", "d", " ", "i", "n", "p", "u", "t">>>>,
    <<<<"s", "c", "a", "n", "n", "e", "r">>, <<"e", "x", "c", "e", "p", "t", "i", "o", "n">>>>,
    <<<<"i", "n", "p", "u", "t", "m", "i", "s", "m", "a", "t", "c", "h", "e", "x", "c", "e", "p", "t", "i", "o", "n">>>>,
    <<<<"n", "e", "x", "t", "l", "i", "n", "e">>>>, <<<<"n", "e", "x", "t", "i", "n", "t">>>>, <<<<"n", "e", "x", "t", "(", ")">>>>,
    <<<<"r", "e", "a", "d", "l", "i", "n", "e", "(", ")">>>>,
    <<<<"i", "n", "p", "u", "t", "(", ")">>>>,
    <<<<"c", "i", "n", " ", ">", ">">>>>,
    <<<<"s", "c", "a", "n", "f">>>>,
    <<<<"b", "u", "f", "f", "e", "r", "e", "d", "r", "e", "a", "d", "e", "r">>>> >>

\* String.prototype.trim
RECURSIVE TrimStart(_)
TrimStart(s) ==
    IF s # <<>> /\ IsAsciiWhitespace(Head(s)) THEN TrimStart(Tail(s)) ELSE s

RECURSIVE TrimEnd(_)
TrimEnd(s) ==
    IF s # <<>> /\ IsAsciiWhitespace(s[Len(s)])
    THEN TrimEnd(SubSeq(s, 1, Len(s) - 1)) ELSE s

trim(s) == TrimEnd(TrimStart(s))

\* The block appended to the output of a program that waited for input;
\* each line of it is one element (the characters outside ASCII are
\* written by their code points)
HintBlock == <<
    "\n", "\n",
    "[51 x U+2501]", "\n",
    "[U+26A0 U+FE0F]  This program requires user input!", "\n", "\n",
    "Since execution is not interactive, you need to", "\n",
    "provide all input BEFORE running:", "\n", "\n",
    "1. Enter values in the \"Input\" panel (on the right)", "\n",
    "2. Put each input on a separate line", "\n",
    "3. Click \"Run Code\" again", "\n",
    "[51 x U+2501]" >>

\* Mutant of needsInput: the success flag is not looked at
MutNeedsInput(data, stdin) ==
    /\ trim(stdin) = <<>>
    /\ \E p \in 1..Len(inputErrorPatterns) :
          RegExpTest(inputErrorPatterns[p], data.output[1])

\* const needsInput = !input.trim() && data.isExecutionSuccess === false &&
\*                    inputErrorPatterns.some(pattern => pattern.test(data.output))
needsInput(data, stdin) ==
    /\ trim(stdin) = <<>>
    /\ data.isExecutionSuccess = <<FALSE>>
    /\ \E p \in 1..Len(inputErrorPatterns) :
          RegExpTest(inputErrorPatterns[p], data.output[1])

\* Mutant of handleRunOutput: the error field is shown without its prefix
MutHandleRunOutput(resp, stdin) ==
    IF resp.threw
    THEN <<"E", "r", "r", "o", "r", ":", " ">> \o resp.message
    ELSE LET data == resp.data IN
         IF data.error # <<>> /\ data.error[1] # <<>>
         THEN data.error[1]
         ELSE IF data.output # <<>>
         THEN IF needsInput(data, stdin)
              THEN data.output[1] \o HintBlock
              ELSE data.output[1]
         ELSE <<"N", "o", " ", "o", "u", "t", "p", "u", "t">>

\* What handleRun hands to setOutput once the execute fetch has settled.
\* A field of data is << >> when absent (or null) and <<value>> otherwise;
\* stdin is the input the handler was created with.
handleRunOutput(resp, stdin) ==
    IF resp.threw
    THEN <<"E", "r", "r", "o", "r", ":", " ">> \o resp.message
    ELSE LET data == resp.data IN
         IF data.error # <<>> /\ data.error[1] # <<>>              \* if (data.error)
         THEN <<"E", "r", "r", "o", "r", ":", " ">> \o data.error[1]
         ELSE IF data.output # <<>>
         THEN IF needsInput(data, stdin)
              THEN data.output[1] \o HintBlock
              ELSE data.output[1]
         ELSE <<"N", "o", " ", "o", "u", "t", "p", "u", "t">>

\* The branch of handleRun a response takes
handleRunBranch(resp, stdin) ==
    IF resp.threw THEN "catch"
    ELSE IF resp.data.error # <<>> /\ resp.data.error[1] # <<>> THEN "error"
    ELSE IF resp.data.output # <<>>
    THEN IF needsInput(resp.data, stdin) THEN "hint" ELSE "output"
    ELSE "no-output"

\* The texts an execution may print
RunOutputs == {
    <<"E", "O", "F", "E", "r", "r", "o", "r", ":", " ", "E", "O", "F", " ", "w", "h", "e", "n", " ", "r", "e", "a", "d", "i", "n", "g", " ", "a", " ", "l", "i", "n", "e">>,
    <<"h", "i">>,
    <<>>,
    <<"S", "c", "a", "n", "n", "e", "r", " ", "c", "l", "o", "s", "e", "d", ":", " ", "E", "x", "c", "e", "p", "t", "i", "o", "n">>,
    <<"s", "c", "a", "n", "n", "e", "r", "\n", "e", "x", "c", "e", "p", "t", "i", "o", "n">> }

\* The error fields the execution API may send: none, an empty one, a text
RunErrors == { <<>>, << <<>> >>, << <<"U", "n", "a", "u", "t", "h", "o", "r", "i", "z", "e", "d">> >>, << <<"i", "n", "p", "u", "t", "(", ")">> >> }

RunData ==
    [error : RunErrors,
     output : {<<>>} \cup {<<o>> : o \in RunOutputs},
     isExecutionSuccess : {<<>>, <<TRUE>>, <<FALSE>>}]

NoData == [error |-> <<>>, output |-> <<>>, isExecutionSuccess |-> <<>>]

\* What the execute fetch may come to: a JSON answer, or a throw of fetch
\* or of response.json()
RunResponses ==
    {[threw |-> FALSE, data |-> d, message |-> <<>>] : d \in RunData}
    \cup {[threw |-> TRUE, data |-> NoData, message |-> <<"F", "a", "i", "l", "e", "d", " ", "t", "o", " ", "f", "e", "t", "c", "h">>]}

\* The texts the user may type into the input panel
Inputs == { <<>>, <<" ", "\n">>, <<"5", "\n">> }

\* Mutant of RunDisabled: the button is disabled only for want of code
MutRunDisabled == code = <<>>

\* The Run button: disabled={isRunning || !code}
RunDisabled == isRunning \/ code = <<>>

\* Mutant of handleRun: the output panel is toggled whether hidden or not
MutHandleRun ==
    /\ UserEvent
    /\ ~RunDisabled
    /\ isRunning' = TRUE
    /\ output' = <<"R", "u", "n", "n", "i", "n", "g", ".", ".", ".">>
    /\ hiddenPanels' = togglePanel(hiddenPanels, "output")
    /\ runs' = Append(runs, [script |-> code, stdin |-> input,
                             language |-> language.value, versionIndex |-> "0"])
    /\ lastEvent' = Event("handleRun",
                        IF isPanelHidden(hiddenPanels, "output")
                        THEN "output-restored" ELSE "", "")
    /\ UNCHANGED <<hub, server, repo, files, activeFile, code, readme, input, language,
                   prismLanguage, isLoading, dropdownOpen, expandedFolders,
                   isTransitioning, codeFontSize, loadPc, loadData, stack,
                   fileFetches>>

\* handleRun up to its await: the output panel is restored, the request
\* carries the code, input and language of the render the click came from
handleRun ==
    /\ UserEvent
    /\ ~RunDisabled
    /\ isRunning' = TRUE
    /\ output' = <<"R", "u", "n", "n", "i", "n", "g", ".", ".", ".">>
    /\ hiddenPanels' = IF isPanelHidden(hiddenPanels, "output")
                       THEN togglePanel(hiddenPanels, "output")
                       ELSE hiddenPanels
    /\ runs' = Append(runs, [script |-> code, stdin |-> input,
                             language |-> language.value, versionIndex |-> "0"])
    /\ lastEvent' = Event("handleRun",
                        IF isPanelHidden(hiddenPanels, "output")
                        THEN "output-restored" ELSE "", "")
    /\ UNCHANGED <<hub, server, repo, files, activeFile, code, readme, input, language,
                   prismLanguage, isLoading, dropdownOpen, expandedFolders,
                   isTransitioning, codeFontSize, loadPc, loadData, stack,
                   fileFetches>>

\* Mutant of ExecuteResponse: isRunning is cleared in the try, not in finally
MutExecuteResponse(i, resp) ==
    /\ i \in 1..Len(runs)
    /\ output' = handleRunOutput(resp, runs[i].stdin)
    /\ isRunning' = resp.threw
    /\ runs' = RemoveAt(runs, i)
    /\ lastEvent' = Event("handleRun-response", handleRunBranch(resp, runs[i].stdin), "")
    /\ UNCHANGED <<hub, server, repo, files, activeFile, code, readme, input, language,
                   prismLanguage, isLoading, dropdownOpen, expandedFolders,
                   isTransitioning, codeFontSize, hiddenPanels, loadPc, loadData,
                   stack, fileFetches, budget>>

\* Mutant of ExecuteResponse: the hint is decided on the input field as it
\* is when the response arrives
MutExecuteResponseLiveInput(i, resp) ==
    /\ i \in 1..Len(runs)
    /\ output' = handleRunOutput(resp, input)
    /\ isRunning' = FALSE
    /\ runs' = RemoveAt(runs, i)
    /\ lastEvent' = Event("handleRun-response", handleRunBranch(resp, input), "")
    /\ UNCHANGED <<hub, server, repo, files, activeFile, code, readme, input, language,
                   prismLanguage, isLoading, dropdownOpen, expandedFolders,
                   isTransitioning, codeFontSize, hiddenPanels, loadPc, loadData,
                   stack, fileFetches, budget>>

\* handleRun from its await on: the execute fetch of run i has settled
ExecuteResponse(i, resp) ==
    /\ i \in 1..Len(runs)
    /\ output' = handleRunOutput(resp, runs[i].stdin)
    /\ isRunning' = FALSE
    /\ runs' = RemoveAt(runs, i)
    /\ lastEvent' = Event("handleRun-response", handleRunBranch(resp, runs[i].stdin), "")
    /\ UNCHANGED <<hub, server, repo, files, activeFile, code, readme, input, language,
                   prismLanguage, isLoading, dropdownOpen, expandedFolders,
                   isTransitioning, codeFontSize, hiddenPanels, loadPc, loadData,
                   stack, fileFetches, budget>>

\* The input textarea's onChange
InputChange(text) ==
    /\ UserEvent
    /\ "input" \in Rendered(isLoading, hiddenPanels)
    /\ text # input
    /\ input' = text
    /\ lastEvent' = Event("setInput", "", "")
    /\ UNCHANGED <<hub, server, repo, files, activeFile, code, readme, output, language,
                   prismLanguage, isRunning, isLoading, dropdownOpen,
                   expandedFolders, isTransitioning, codeFontSize, hiddenPanels,
                   loadPc, loadData, stack, fileFetches, runs>>

\* Mutant of handleClear: the code is cleared with the input and the output
MutHandleClear ==
    /\ UserEvent
    /\ input' = <<>>
    /\ output' = <<>>
    /\ code' = <<>>
    /\ lastEvent' = Event("handleClear", "", "")
    /\ UNCHANGED <<hub, server, repo, files, activeFile, readme, language,
                   prismLanguage, isRunning, isLoading, dropdownOpen,
                   expandedFolders, isTransitioning, codeFontSize, hiddenPanels,
                   loadPc, loadData, stack, fileFetches, runs>>

\* The Clear button
handleClear ==
    /\ UserEvent
    /\ input' = <<>>
    /\ output' = <<>>
    /\ lastEvent' = Event("handleClear", "", "")
    /\ UNCHANGED <<hub, server, repo, files, activeFile, code, readme, language,
                   prismLanguage, isRunning, isLoading, dropdownOpen,
                   expandedFolders, isTransitioning, codeFontSize, hiddenPanels,
                   loadPc, loadData, stack, fileFetches, runs>>

\* ------------------------------------------------------- other controls

\* The language dropdown's trigger
DropdownTriggerClick ==
    /\ UserEvent
    /\ dropdownOpen' = ~dropdownOpen
    /\ lastEvent' = Event("setDropdownOpen", "trigger", "")
    /\ UNCHANGED <<hub, server, repo, files, activeFile, code, readme, input, output, language,
                   prismLanguage, isRunning, isLoading, expandedFolders,
                   isTransitioning, codeFontSize, hiddenPanels, loadPc, loadData,
                   stack, fileFetches, runs>>

\* handleClickOutside: a mousedown outside the dropdown
handleClickOutside ==
    /\ UserEvent
    /\ dropdownOpen
    /\ dropdownOpen' = FALSE
    /\ lastEvent' = Event("setDropdownOpen", "outside", "")
    /\ UNCHANGED <<hub, server, repo, files, activeFile, code, readme, input, output, language,
                   prismLanguage, isRunning, isLoading, expandedFolders,
                   isTransitioning, codeFontSize, hiddenPanels, loadPc, loadData,
                   stack, fileFetches, runs>>

\* A click on an entry of the open language dropdown
LanguageItemClick(lang) ==
    /\ UserEvent
    /\ dropdownOpen
    /\ language' = lang
    /\ dropdownOpen' = FALSE
    /\ lastEvent' = Event("setLanguage", lang.value, "")
    /\ UNCHANGED <<hub, server, repo, files, activeFile, code, readme, input, output,
                   prismLanguage, isRunning, isLoading, expandedFolders,
                   isTransitioning, codeFontSize, hiddenPanels, loadPc, loadData,
                   stack, fileFetches, runs>>

MaxFontSize == 20

MinFontSize == 8

AutoFitMin == 8

AutoFitMax == 16

Min(a, b) == IF a <= b THEN a ELSE b

Max(a, b) == IF a >= b THEN a ELSE b

\* Mutant of IncreaseFontClick: the size is raised without a ceiling
MutIncreaseFontClick ==
    /\ UserEvent
    /\ "code" \in Rendered(isLoading, hiddenPanels)
    /\ codeFontSize' = codeFontSize + 1
    /\ lastEvent' = Event("setCodeFontSize", "increase", "")
    /\ UNCHANGED <<hub, server, repo, files, activeFile, code, readme, input, output, language,
                   prismLanguage, isRunning, isLoading, dropdownOpen,
                   expandedFolders, isTransitioning, hiddenPanels, loadPc,
                   loadData, stack, fileFetches, runs>>

\* The "Increase font" and "Decrease font" buttons of the code panel
IncreaseFontClick ==
    /\ UserEvent
    /\ "code" \in Rendered(isLoading, hiddenPanels)
    /\ codeFontSize' = Min(codeFontSize + 1, MaxFontSize)
    /\ lastEvent' = Event("setCodeFontSize", "increase", "")
    /\ UNCHANGED <<hub, server, repo, files, activeFile, code, readme, input, output, language,
                   prismLanguage, isRunning, isLoading, dropdownOpen,
                   expandedFolders, isTransitioning, hiddenPanels, loadPc,
                   loadData, stack, fileFetches, runs>>

DecreaseFontClick ==
    /\ UserEvent
    /\ "code" \in Rendered(isLoading, hiddenPanels)
    /\ codeFontSize' = Max(codeFontSize - 1, MinFontSize)
    /\ lastEvent' = Event("setCodeFontSize", "decrease", "")
    /\ UNCHANGED <<hub, server, repo, files, activeFile, code, readme, input, output, language,
                   prismLanguage, isRunning, isLoading, dropdownOpen,
                   expandedFolders, isTransitioning, hiddenPanels, loadPc,
                   loadData, stack, fileFetches, runs>>

\* code.split('\n').length
LineCount(text) == 1 + Cardinality({i \in 1..Len(text) : text[i] = 10})

\* Math.round(Math.min(Math.max(containerHeight / lineCount / 1.6, 8), 16)),
\* in exact arithmetic: height / lines / 1.6 = 5 * height / (8 * lines)
OptimalFontSize(containerHeight, lineCount) ==
    IF 5 * containerHeight <= AutoFitMin * 8 * lineCount THEN AutoFitMin
    ELSE IF 5 * containerHeight >= AutoFitMax * 8 * lineCount THEN AutoFitMax
    ELSE (10 * containerHeight + 8 * lineCount) \div (16 * lineCount)

\* The heights the code container may have (clientHeight)
ClientHeights == {0, 50, 90, 200, 1000}

\* The "Auto-fit code" button
autoFitCode(clientHeight) ==
    /\ UserEvent
    /\ "code" \in Rendered(isLoading, hiddenPanels)
    /\ code # <<>>
    /\ codeFontSize' = OptimalFontSize(clientHeight - 32, LineCount(code))
    /\ lastEvent' = Event("autoFitCode", "", "")
    /\ UNCHANGED <<hub, server, repo, files, activeFile, code, readme, input, output, language,
                   prismLanguage, isRunning, isLoading, dropdownOpen,
                   expandedFolders, isTransitioning, hiddenPanels, loadPc,
                   loadData, stack, fileFetches, runs>>

\* The logo: the transition overlay is shown (the page is left 1.2 s later)
handleLogoClick ==
    /\ UserEvent
    /\ isTransitioning' = TRUE
    /\ lastEvent' = Event("handleLogoClick", "", "")
    /\ UNCHANGED <<hub, server, repo, files, activeFile, code, readme, input, output, language,
                   prismLanguage, isRunning, isLoading, dropdownOpen,
                   expandedFolders, codeFontSize, hiddenPanels, loadPc, loadData,
                   stack, fileFetches, runs>>

\* ------------------------------------------------------- specifications

PanelStep == \E p \in AllPanels : TogglePanelClick(p)

FileClickStep == \E item \in VisibleItems(files, expandedFolders) : handleFileClick(item)

FileResponseStep ==
    \E i \in 1..Len(fileFetches) : \E kind \in FileResponseKinds :
        FileContentResponse(i, kind)

ExecuteResponseStep ==
    \E i \in 1..Len(runs) : \E resp \in RunResponses : ExecuteResponse(i, resp)

InputStep == \E text \in Inputs : InputChange(text)

LanguageStep == \E i \in 1..Len(LANGUAGES) : LanguageItemClick(LANGUAGES[i])

AutoFitStep == \E h \in ClientHeights : autoFitCode(h)

\* Every handler and continuation of the view, for MaxEvents user events
Next ==
    \/ LoadStep
    \/ PanelStep
    \/ FileClickStep
    \/ FileResponseStep
    \/ handleRun
    \/ ExecuteResponseStep
    \/ InputStep
    \/ handleClear
    \/ DropdownTriggerClick
    \/ handleClickOutside
    \/ LanguageStep
    \/ IncreaseFontClick
    \/ DecreaseFontClick
    \/ AutoFitStep
    \/ handleLogoClick

Spec == Init /\ [][Next]_vars

\* The panel layout: the load, the panel buttons and the Run button
NextPanels ==
    \/ LoadStep
    \/ PanelStep
    \/ FileResponseStep
    \/ handleRun
    \/ ExecuteResponseStep

SpecPanels == InitFree /\ [][NextPanels]_vars

\* File selection: the load, the file tree and the content responses
NextFiles ==
    \/ LoadStep
    \/ FileClickStep
    \/ FileResponseStep

SpecFiles == InitFree /\ [][NextFiles]_vars

\* Execution: the load, the first file's content, input, Run and Clear
NextRun ==
    \/ LoadStep
    \/ FileResponseStep
    \/ InputStep
    \/ handleRun
    \/ ExecuteResponseStep
    \/ handleClear

SpecRun == InitFree /\ [][NextRun]_vars

RootListingStep == \E o \in ListingOutcomes : RootListingResponse(o)

\* Detection: the load of a repository without folders or README, the file
\* tree and the content responses
NextDetect ==
    \/ RootListingStep
    \/ FileClickStep
    \/ FileResponseStep

SpecDetect == InitDetect /\ [][NextDetect]_vars

\* The execute function under every environment, serving requests one
\* after the other
InitServer ==
    /\ repo = "demo"
    /\ Mounted
    /\ budget = -1
    /\ server \in {ServerIdle(env) : env \in Envs}
    /\ HubLeft

HandlerStep == \E method \in Methods : \E body \in Bodies : handler(method, body)

UpstreamStep == \E outcome \in UpstreamOutcomes : UpstreamSettles(outcome)

NextServer ==
    \/ HandlerStep
    \/ UpstreamStep

SpecServer == InitServer /\ [][NextServer]_vars

\* The hub view from its mount
InitHub ==
    /\ repo = "demo"
    /\ Mounted
    /\ budget = -1
    /\ Deployed
    /\ hub = HubMounted

HubResponseStep == \E outcome \in HubOutcomes : fetchRepositories(outcome)

HubCardStep == \E r \in HubCards : RepoCardClick(r)

NextHub ==
    \/ HubResponseStep
    \/ HubCardStep
    \/ HubLogoClick
    \/ HubLogoTimeout

SpecHub == InitHub /\ [][NextHub]_vars

\* Font size: the load, the first file's content and the three font buttons
NextFont ==
    \/ LoadStep
    \/ FileResponseStep
    \/ IncreaseFontClick
    \/ DecreaseFontClick
    \/ AutoFitStep

SpecFont == InitFree /\ [][NextFont]_vars

\* ================================================================ claims

\* C1: for every hidden-panel set and every panel identifier, togglePanel
\* inserts the identifier if absent and removes it if present, and applied
\* twice in succession gives the set back.
C1_ToggleInvolution ==
    \A p \in AllPanels :
        /\ togglePanel(togglePanel(hiddenPanels, p), p) = hiddenPanels
        /\ p \notin hiddenPanels =>
              /\ p \in togglePanel(hiddenPanels, p)
              /\ togglePanel(hiddenPanels, p) \ {p} = hiddenPanels
        /\ p \in hiddenPanels =>
              /\ p \notin togglePanel(hiddenPanels, p)
              /\ togglePanel(hiddenPanels, p) \cup {p} = hiddenPanels

\* C1 witness: the code panel was hidden and a second toggle has just
\* brought the set back to the empty one
C1_Witness ==
    /\ lastEvent = Event("togglePanel", "code", "")
    /\ hiddenPanels = {}

\* C2 as stated: in every reachable state the rendered panels are exactly
\* the panels that are not hidden.
C2_Original ==
    Rendered(isLoading, hiddenPanels) \cap AllPanels = AllPanels \ hiddenPanels

\* C2 as amended: whenever the loading screen is not shown, the rendered
\* panels are exactly the panels that are not hidden.
C2_RenderedIsComplement ==
    ~isLoading =>
        Rendered(isLoading, hiddenPanels) \cap AllPanels = AllPanels \ hiddenPanels

\* C2 witness: the view is loaded, with two panels hidden and two rendered
C2_Witness ==
    /\ ~isLoading
    /\ hiddenPanels = {"readme", "input"}
    /\ Rendered(isLoading, hiddenPanels) \cap AllPanels = {"code", "output"}

\* C3: each separator is rendered only if the region before it is rendered
\* and at least one region after it is rendered.
C3_SeparatorsAdjacent ==
    LET R == Rendered(isLoading, hiddenPanels) IN
    /\ "sep-code" \in R =>
          "code" \in R /\ R \cap {"readme", "input", "output"} # {}
    /\ "sep-readme" \in R =>
          "readme" \in R /\ R \cap {"input", "output"} # {}
    /\ "sep-io" \in R =>
          "input" \in R /\ "output" \in R

\* C3 witness: the separator after the code panel is rendered although its
\* neighbour, the README, is hidden: the output panel further on is visible
C3_Witness ==
    /\ hiddenPanels = {"readme", "input"}
    /\ "sep-code" \in Rendered(isLoading, hiddenPanels)
    /\ "sep-readme" \notin Rendered(isLoading, hiddenPanels)

\* The run of resp took the branch that shows the program's output: the
\* response was read, and data.error is absent or empty
ShowsOutput(resp) ==
    /\ ~resp.threw
    /\ resp.data.output # <<>>
    /\ resp.data.error \in {<<>>, << <<>> >>}

\* The three conditions of the missing-stdin hint, for a text and the input
\* the run was started with
HintDue(resp, text, stdin) ==
    /\ resp.data.isExecutionSuccess = <<FALSE>>
    /\ \A k \in 1..Len(stdin) : IsAsciiWhitespace(stdin[k])
    /\ \E p \in 1..Len(inputErrorPatterns) : RegExpTest(inputErrorPatterns[p], text)

\* C4 as stated: for a run response carrying an output text, the displayed
\* output is the output followed by the hint block exactly when the run did
\* not succeed, the input is blank and the output matches a missing-stdin
\* pattern, and the raw output otherwise.
C4_Original ==
    [][\A i \in 1..Len(runs) : \A resp \in RunResponses :
          (ExecuteResponse(i, resp) /\ ~resp.threw /\ resp.data.output # <<>>) =>
              output' = IF HintDue(resp, resp.data.output[1], runs[i].stdin)
                        THEN resp.data.output[1] \o HintBlock
                        ELSE resp.data.output[1]]_vars

\* C4 as amended: the same, for a run response carrying an output text and
\* no non-empty error field.
C4_HintExactlyWhenDue ==
    [][\A i \in 1..Len(runs) : \A resp \in RunResponses :
          (ExecuteResponse(i, resp) /\ ShowsOutput(resp)) =>
              output' = IF HintDue(resp, resp.data.output[1], runs[i].stdin)
                        THEN resp.data.output[1] \o HintBlock
                        ELSE resp.data.output[1]]_vars

\* C4 witness: a failed run with blank input whose output names EOFError
\* has been answered, and the output shown is that text and the hint block
C4_Witness ==
    /\ lastEvent = Event("handleRun-response", "hint", "")
    /\ output = <<"E", "O", "F", "E", "r", "r", "o", "r", ":", " ", "E", "O", "F", " ", "w", "h", "e", "n", " ", "r", "e", "a", "d", "i", "n", "g", " ", "a", " ", "l", "i", "n", "e">> \o HintBlock

\* C5 as stated: when the response carries an error field (a non-empty
\* one: an empty one is not taken for an error), the text shown
\* is that field verbatim, with the hint block appended when the hint's
\* conditions hold of it.
C5_Original ==
    [][\A i \in 1..Len(runs) : \A resp \in RunResponses :
          (/\ ExecuteResponse(i, resp)
           /\ ~resp.threw
           /\ resp.data.error # <<>>
           /\ resp.data.error[1] # <<>>) =>
              output' = IF HintDue(resp, resp.data.error[1], runs[i].stdin)
                        THEN resp.data.error[1] \o HintBlock
                        ELSE resp.data.error[1]]_vars

\* C5 as amended: when the response carries a non-empty error field, the
\* text shown is "Error: " followed by that field verbatim, and the hint
\* block is never appended to it.
C5_ErrorPrefixedNoHint ==
    [][\A i \in 1..Len(runs) : \A resp \in RunResponses :
          (/\ ExecuteResponse(i, resp)
           /\ ~resp.threw
           /\ resp.data.error # <<>>
           /\ resp.data.error[1] # <<>>) =>
              output' = <<"E", "r", "r", "o", "r", ":", " ">> \o resp.data.error[1]]_vars

\* C5 witness: a run started with blank input was answered with the error
\* field "input()", which matches a missing-stdin pattern, and no hint
\* follows it
C5_Witness ==
    /\ lastEvent = Event("handleRun-response", "error", "")
    /\ input = <<>>
    /\ output = <<"E", "r", "r", "o", "r", ":", " ", "i", "n", "p", "u", "t", "(", ")">>

\* C6: every selection whose file fetch succeeds ends with code equal to the
\* decoded content of that file, the empty file included.
C6_SelectShowsContent ==
    [][\A i \in 1..Len(fileFetches) :
          FileContentResponse(i, "ok") => code' = FileBytes(fileFetches[i].path)]_vars

\* C7: when the response to an earlier selection arrives after the response
\* to the selection made last (the active file, with no request of its own
\* outstanding any more), the code shown becomes the content of the file
\* selected earlier while activeFile still names the file selected last.
C7_LastResponseWins ==
    [][\A i \in 1..Len(fileFetches) :
          (/\ FileContentResponse(i, "ok")
           /\ fileFetches[i].path # activeFile
           /\ \A j \in 1..Len(fileFetches) : fileFetches[j].path # activeFile) =>
              /\ code' = FileBytes(fileFetches[i].path)
              /\ activeFile' = activeFile]_vars

FailedFetchKinds == {"network-error", "bad-json", "bad-character", "bad-length"}

\* C8: when the fetch of a selected file fails (the fetch throws, the
\* response does not parse, or its content is not base64), code, language
\* and prismLanguage keep their values, and so do files, readme, input,
\* output and hiddenPanels.
C8_FailedFetchKeepsState ==
    [][\A i \in 1..Len(fileFetches) : \A kind \in FailedFetchKinds :
          FileContentResponse(i, kind) =>
              UNCHANGED <<code, language, prismLanguage, files, readme, input,
                          output, hiddenPanels>>]_vars

\* C8 witness: the content of lib.py is on display, under its language, and
\* the fetch of Util.JAVA has just failed on a content that is not base64
C8_Witness ==
    /\ lastEvent = Event("fetchFileContent", "bad-length", "pkg/Util.JAVA")
    /\ activeFile = "pkg/Util.JAVA"
    /\ code = FileBytes("pkg/inner/deep.c")
    /\ prismLanguage = "c"

\* The tree the listings of a repository describe, level by level
RECURSIVE ListingTree(_, _)
ListingTree(r, items) ==
    [i \in 1..Len(items) |->
        IF items[i].type = "dir"
        THEN [name |-> items[i].name, path |-> items[i].path, type |-> "folder",
              children |-> ListingTree(r, Listing(r, items[i].path))]
        ELSE [name |-> items[i].name, path |-> items[i].path, type |-> "file"]]

\* C10: when every listing fetch succeeded (the load is past buildTree and
\* did not end in its catch), files mirrors the listings: the entries in
\* their order, a folder node with the tree of its own listing for each
\* directory, a file node without children for each other entry.  For the
\* root [src (dir), main.py] with src = [lib.py] it is folder src holding
\* lib.py, then main.py.
C10_TreeMirrorsListings ==
    loadPc \in {"readme", "done"} =>
        /\ files = ListingTree(repo, Listing(repo, ""))
        /\ repo = "demo" =>
              files = << [name |-> <<"s", "r", "c">>, path |-> "src", type |-> "folder",
                          children |-> << [name |-> <<"l", "i", "b", ".", "p", "y">>, path |-> "src/lib.py",
                                           type |-> "file"] >>],
                         [name |-> <<"m", "a", "i", "n", ".", "p", "y">>, path |-> "main.py", type |-> "file"] >>

\* C10 witness: the load of the repository with an empty folder and a
\* folder inside a folder has run to its end
C10_Witness ==
    /\ repo = "mixed"
    /\ loadPc = "done"
    /\ Len(files) = 4
    /\ files[2].type = "folder" /\ files[2].children = <<>>
    /\ files[3].children[1].children[1].path = "pkg/inner/deep.c"
    /\ files[4].type = "file"

\* The handlers a file selection runs: the click on a file, the load's
\* selection of the first code file, and the arrival of the content
SelectionHandlers == {"handleFileClick", "fetchRepoContents", "fetchFileContent"}

\* C9 as stated: activeFile, code, language and prismLanguage change only
\* as the result of a file selection.
C9_Original ==
    [][(\/ activeFile' # activeFile
        \/ code' # code
        \/ language' # language
        \/ prismLanguage' # prismLanguage) =>
            lastEvent'.handler \in SelectionHandlers]_vars

\* C9 as amended: activeFile, code and prismLanguage change only as the
\* result of a file selection; language changes only as the result of a file
\* selection or of a click on an entry of the language dropdown.
C9_EditorStateFrame ==
    [][/\ (\/ activeFile' # activeFile
           \/ code' # code
           \/ prismLanguage' # prismLanguage) =>
               lastEvent'.handler \in SelectionHandlers
       /\ language' # language =>
               lastEvent'.handler \in SelectionHandlers \cup {"setLanguage"}]_vars

\* C9 witness: src/lib.py, the file selected automatically, is on display as
\* Python and the language dropdown has just set the language to Ruby
C9_Witness ==
    /\ lastEvent = Event("setLanguage", "ruby", "")
    /\ language.value = "ruby"
    /\ activeFile = "src/lib.py"
    /\ code = FileBytes("src/lib.py")
    /\ prismLanguage = "python"

\* ------------------------------------------------------------------ C11

\* The file nodes of a tree, at every depth
RECURSIVE LeafCount(_)
LeafCount(tree) ==
    IF tree = <<>> THEN 0
    ELSE (IF Head(tree).type = "file" THEN 1 ELSE LeafCount(Head(tree).children))
         + LeafCount(Tail(tree))

\* The entries of kind "file" in a listing and in the listings of the
\* directories below it
RECURSIVE FileEntries(_, _)
FileEntries(r, items) ==
    IF items = <<>> THEN 0
    ELSE (IF Head(items).type = "file" THEN 1
          ELSE FileEntries(r, Listing(r, Head(items).path)))
         + FileEntries(r, Tail(items))

\* C11: once buildTree has returned and files is set, the number of file
\* nodes in files equals the number of file entries over all the listings
\* of the repository.
C11_LeafCountIsFileCount ==
    (files # <<>> \/ loadPc \in {"readme", "done"}) =>
        LeafCount(files) = FileEntries(repo, Listing(repo, ""))

\* C11 witness: the tree of "mixed" is built, four files over three levels
C11_Witness ==
    /\ repo = "mixed"
    /\ loadPc = "done"
    /\ LeafCount(files) = 4
    /\ FileEntries(repo, Listing(repo, "")) = 4

\* ------------------------------------------------------------------ C12

\* C12: a folder listing that fails while the tree is being built ends the
\* load in the catch with files still empty, as it was at mount, and files
\* does not change after a failed load.
C12_FailedBuildKeepsFiles ==
    [][/\ (loadPc = "folder" /\ lastEvent'.detail # "ok") =>
            /\ loadPc' = "failed"
            /\ ~isLoading'
            /\ files = <<>>
            /\ files' = <<>>
       /\ loadPc = "failed" => files' = files]_vars

\* C12 witness: in "mixed" the listing of pkg/inner, two levels down, has
\* failed after ReadMe.md, docs and part of pkg were built
C12_Witness ==
    /\ repo = "mixed"
    /\ loadPc = "failed"
    /\ lastEvent.handler = "fetchRepoContents"
    /\ lastEvent.path = "pkg/inner"
    /\ lastEvent.detail # "ok"
    /\ files = <<>>
    /\ ~isLoading

\* ------------------------------------------------------------------ C13

\* The name of the file the last content response was for
DetectedName ==
    LET l == Listing(repo, "")
    IN  l[CHOOSE i \in 1..Len(l) : l[i].path = lastEvent.path].name

\* A filename has an extension when it has a dot: the text after the last one
HasExtension(f) == \E i \in 1..Len(f) : f[i] = "."

Extension(f) ==
    LET dots == {i \in 1..Len(f) : f[i] = "."}
        last == CHOOSE i \in dots : \A j \in dots : j <= i
    IN  SubSeq(f, last + 1, Len(f))

Stem(f) == SubSeq(f, 1, Len(f) - Len(Extension(f)))

UpperChar(c) ==
    IF \E i \in 1..Len(LowerChars) : LowerChars[i] = c
    THEN UpperChars[CHOOSE i \in 1..Len(LowerChars) : LowerChars[i] = c]
    ELSE c

\* Every upper/lower-casing of a text
RECURSIVE Casings(_)
Casings(t) ==
    IF t = <<>> THEN {<<>>}
    ELSE {<<c>> \o rest : c \in {LowerChar(Head(t)), UpperChar(Head(t))},
                          rest \in Casings(Tail(t))}

\* The entries of the language table that list a lower-case extension
LanguagesListing(e) ==
    {i \in 1..Len(LANGUAGES) :
        \E k \in 1..Len(LANGUAGES[i].extensions) :
            LANGUAGES[i].extensions[k] = <<".">> \o e}

\* The syntax names the syntax table gives a lower-case extension
SyntaxesListing(e) ==
    {PRISM_LANGUAGES[i][2] : i \in {j \in 1..Len(PRISM_LANGUAGES) :
                                        PRISM_LANGUAGES[j][1] = <<".">> \o e}}

\* C13: after the content of a file has arrived, language is the one entry
\* of the language table that lists the file's extension in lower case, or
\* Python 3 when the file has no extension or none lists it; prismLanguage
\* is the syntax table's name for it, or plaintext; and every casing of
\* the extension is detected alike.  It fails for a name without a dot that
\* reads like an extension ("c"): split('.').pop() gives the whole name.
C13_DetectionTotalCaseInsensitive ==
    (lastEvent.handler = "fetchFileContent" /\ lastEvent.detail = "ok") =>
        LET f    == DetectedName
            e    == IF HasExtension(f) THEN toLowerCase(Extension(f)) ELSE <<>>
            in   == IF HasExtension(f) THEN LanguagesListing(e) ELSE {}
            syn  == IF HasExtension(f) THEN SyntaxesListing(e) ELSE {}
        IN  /\ Cardinality(in) <= 1
            /\ Cardinality(syn) <= 1
            /\ IF in # {} THEN \A i \in in : language = LANGUAGES[i]
                          ELSE language = LANGUAGES[1] /\ language.label = "Python 3"
            /\ IF syn # {} THEN prismLanguage \in syn
                           ELSE prismLanguage = "plaintext"
            /\ HasExtension(f) =>
                   \A v \in Casings(Extension(f)) :
                       /\ detectLanguage(Stem(f) \o v) = language
                       /\ getPrismLanguage(Stem(f) \o v) = prismLanguage

\* ------------------------------------------------------------------ C14

\* C14: when the root listing fetch fails the failure is caught (the load
\* ends, the loading screen goes), a text cell of the view comes to show an
\* error string, and no listing is requested again.  It fails: the catch of
\* fetchRepoContents only logs, and the view has no cell for an error.
C14_ListingFailureShown ==
    [][/\ (loadPc = "root" /\ lastEvent'.detail # "ok") =>
            /\ loadPc' = "failed"
            /\ ~isLoading'
            /\ \/ output' # <<>>
               \/ readme' # <<>>
               \/ code' # <<>>
       /\ loadPc = "failed" => loadPc' = "failed"]_vars

\* ------------------------------------------------------------ C15 - C18

ForwardedKeys == {"script", "stdin", "language", "versionIndex"}

CredentialKeys == {"clientId", "clientSecret"}

\* C15: a request whose method is not POST is answered 405 and no call is
\* made to the execution API, whatever its body and the environment.
C15_NonPostRejected ==
    (server.req # <<>> /\ server.req[1].method # "POST") =>
        /\ server.pc = "responded"
        /\ server.res # <<>>
        /\ server.res[1].status = 405
        /\ server.sent = <<>>
        /\ server.got = <<>>

\* C15 witness: a GET with a full body, both credentials set, answered 405
C15_Witness ==
    /\ server.req # <<>>
    /\ server.req[1].method = "GET"
    /\ server.req[1].body # <<>>
    /\ DOMAIN server.req[1].body[1] = ForwardedKeys
    /\ server.env = ConfiguredEnv
    /\ server.res # <<>>
    /\ server.res[1].status = 405
    /\ server.sent = <<>>

\* C16: a POST served while either credential is absent from the
\* environment is answered 500 and no call is made to the execution API.
C16_MissingCredentials ==
    (/\ server.req # <<>>
     /\ server.req[1].method = "POST"
     /\ (server.env.clientId = Undefined \/ server.env.clientSecret = Undefined)) =>
        /\ server.pc = "responded"
        /\ server.res # <<>>
        /\ server.res[1].status = 500
        /\ server.sent = <<>>
        /\ server.got = <<>>

\* C16 witness: a POST with a full body, the client id set and the secret
\* absent, answered 500
C16_Witness ==
    /\ server.req # <<>>
    /\ server.req[1].method = "POST"
    /\ server.req[1].body # <<>>
    /\ DOMAIN server.req[1].body[1] = ForwardedKeys
    /\ Truthy(server.env.clientId)
    /\ server.env.clientSecret = Undefined
    /\ server.res # <<>>
    /\ server.res[1].status = 500
    /\ server.sent = <<>>

\* A POST with a JSON body served with both credentials set
ForwardingCase ==
    /\ server.req # <<>>
    /\ server.req[1].method = "POST"
    /\ server.req[1].body # <<>>
    /\ Truthy(server.env.clientId)
    /\ Truthy(server.env.clientSecret)

\* The answer of the execution API, when it came as JSON, is the payload of
\* a 200 response
RelayedVerbatim ==
    (server.got # <<>> /\ server.got[1].kind = "json") =>
        server.res = <<[status |-> 200, json |-> server.got[1].data]>>

\* C17 as stated: the one call made upstream carries script, stdin, language
\* and versionIndex exactly as received (absent when absent), plus the two
\* credentials, and the upstream's JSON is relayed without modification.
C17_Original ==
    ForwardingCase =>
        /\ Len(server.sent) = 1
        /\ DOMAIN server.sent[1] \subseteq ForwardedKeys \cup CredentialKeys
        /\ \A k \in ForwardedKeys :
              Get(server.sent[1], k) = Get(server.req[1].body[1], k)
        /\ server.sent[1].clientId = server.env.clientId
        /\ server.sent[1].clientSecret = server.env.clientSecret
        /\ RelayedVerbatim

\* C17 as amended: script, stdin and language are sent exactly as received;
\* versionIndex is sent as received when it is truthy and as the string '0'
\* when it is absent, null, empty or zero; the two credentials are added and
\* the upstream's JSON is relayed without modification.
C17_ForwardsWithDefaultVersion ==
    ForwardingCase =>
        /\ Len(server.sent) = 1
        /\ DOMAIN server.sent[1] \subseteq ForwardedKeys \cup CredentialKeys
        /\ \A k \in ForwardedKeys \ {"versionIndex"} :
              Get(server.sent[1], k) = Get(server.req[1].body[1], k)
        /\ LET received == Get(server.req[1].body[1], "versionIndex")
           IN  Get(server.sent[1], "versionIndex") =
                   IF received \in {Undefined, Null, Str(""), Num("0")}
                   THEN Str("0") ELSE received
        /\ server.sent[1].clientId = server.env.clientId
        /\ server.sent[1].clientSecret = server.env.clientSecret
        /\ RelayedVerbatim

\* C17 witness: a POST without versionIndex went upstream with '0' and the
\* upstream's error answer came back as a 200
C17_Witness ==
    /\ ForwardingCase
    /\ DOMAIN server.req[1].body[1] = ForwardedKeys \ {"versionIndex"}
    /\ Len(server.sent) = 1
    /\ server.sent[1].versionIndex = Str("0")
    /\ server.got # <<>>
    /\ server.got[1].kind = "json"
    /\ "error" \in DOMAIN server.got[1].data
    /\ server.res # <<>>
    /\ server.res[1].status = 200

\* C18: when the upstream call or the reading of its answer throws, the
\* response is a 500 whose payload has an error field, never a 200.
C18_UpstreamThrowIs500 ==
    (server.got # <<>> /\ server.got[1].kind # "json") =>
        /\ server.pc = "responded"
        /\ server.res # <<>>
        /\ server.res[1].status = 500
        /\ "error" \in DOMAIN server.res[1].json

\* C18 witness: the upstream answered with a body that is not JSON
C18_Witness ==
    /\ ForwardingCase
    /\ server.got # <<>>
    /\ server.got[1].kind = "bad-json"
    /\ server.res # <<>>
    /\ server.res[1].status = 500
    /\ server.res[1].json.error = Str("Failed to execute code")

\* ------------------------------------------------------------------ C19

\* C19: handleRun leaves "output" out of hiddenPanels, whether it was in
\* it or not, leaves the other panels' membership as it was, and the output
\* panel is rendered after it.
C19_RunShowsOutput ==
    [][lastEvent'.handler = "handleRun" =>
          /\ "output" \notin hiddenPanels'
          /\ hiddenPanels' = hiddenPanels \ {"output"}
          /\ \A p \in {"code", "readme", "input"} :
                (p \in hiddenPanels') = (p \in hiddenPanels)
          /\ "output" \in Rendered(isLoading', hiddenPanels')]_vars

\* C19 witness: Run was clicked with input and output hidden (the whole IO
\* panel gone); output is back and input still hidden
C19_Witness ==
    /\ lastEvent = Event("handleRun", "output-restored", "")
    /\ hiddenPanels = {"input"}
    /\ "output" \in Rendered(isLoading, hiddenPanels)
    /\ isRunning

\* ------------------------------------------------------------------ C20

\* C20: when the execute fetch of a run settles, on every outcome, isRunning
\* is false again and no run is left waiting, and the Run button is enabled
\* when there is code; isRunning is true exactly while a run waits.
C20_RunEndsNotRunning ==
    [][/\ lastEvent'.handler = "handleRun-response" =>
            /\ lastEvent'.detail \in {"error", "hint", "output", "no-output", "catch"}
            /\ ~isRunning'
            /\ runs' = <<>>
            /\ code' # <<>> => ~RunDisabled'
       /\ isRunning' = (runs' # <<>>)]_vars

\* C20 witness: the execute fetch threw; the view shows the error, is not
\* running and the Run button is enabled
C20_Witness ==
    /\ lastEvent = Event("handleRun-response", "catch", "")
    /\ ~isRunning
    /\ code # <<>>
    /\ ~RunDisabled
    /\ runs = <<>>

\* ------------------------------------------------------------------ C21

\* The file nodes of a tree in depth-first pre-order, folders descended in
\* listing order
RECURSIVE PreOrderFiles(_)
PreOrderFiles(tree) ==
    IF tree = <<>> THEN <<>>
    ELSE (IF Head(tree).type = "file" THEN <<Head(tree)>>
          ELSE PreOrderFiles(Head(tree).children))
         \o PreOrderFiles(Tail(tree))

\* A file whose extension, in lower case, is listed in the language table
HasCodeExtension(f) ==
    HasExtension(f) /\ LanguagesListing(toLowerCase(Extension(f))) # {}

\* The load has just ended with every fetch answered
LoadJustSucceeded ==
    /\ loadPc = "done"
    /\ lastEvent.handler = "fetchRepoContents"
    /\ lastEvent.detail = "ok"

\* C21: when a load in which every fetch succeeded ends, activeFile is the
\* path of the first file, in pre-order, whose lower-cased extension is in
\* the language table, and the one content fetch issued is for that file;
\* when the tree has no such file activeFile is still empty and no content
\* fetch is issued.  It fails for a name without a dot that reads like an
\* extension ("go"), which findFirstCodeFile takes for a code file.
C21_FirstCodeFileSelected ==
    LoadJustSucceeded =>
        LET all  == PreOrderFiles(files)
            hits == {i \in 1..Len(all) : HasCodeExtension(all[i].name)}
        IN  IF hits = {}
            THEN activeFile = "" /\ fileFetches = <<>>
            ELSE LET first == all[CHOOSE i \in hits : \A j \in hits : i <= j]
                 IN  /\ activeFile = first.path
                     /\ fileFetches = <<[path |-> first.path, filename |-> first.name]>>

\* ------------------------------------------------------------------ C22

\* C22: once the hub's list fetch has settled isLoading is false and no
\* second request was issued; after a failure (network error, non-OK
\* status, unreadable body) error is a message and repositories is empty;
\* after a success error is still null.  Until it settles the hub is loading
\* with error null.
C22_HubListFetch ==
    /\ hub.requests <= 1
    /\ hub.got = <<>> => (hub.error = <<>> /\ hub.repositories = <<>>)
    /\ (hub.got = <<>> /\ hub.pc = "fetching") => hub.isLoading
    /\ hub.got # <<>> =>
          /\ ~hub.isLoading
          /\ IF hub.got[1].kind = "ok"
             THEN hub.error = <<>>
             ELSE /\ hub.error # <<>>
                  /\ hub.error[1] # ""
                  /\ hub.repositories = <<>>

\* C22 witness: the list API answered with a status that is not OK
C22_Witness ==
    /\ hub.got # <<>>
    /\ hub.got[1].kind = "not-ok"
    /\ hub.error = <<"Failed to fetch repositories">>
    /\ ~hub.isLoading
    /\ hub.repositories = <<>>
    /\ hub.requests = 1

\* ------------------------------------------------------------------ C23

\* C23: the separators of the horizontal group are one fewer than its
\* rendered regions (code, README, IO column), none when no region is
\* rendered, and one stands between every two neighbouring regions; the
\* vertical separator is rendered exactly when input and output both are;
\* the IO column exactly when input or output is; and once the view has
\* loaded a panel is rendered exactly when it is not hidden.
C23_SeparatorCount ==
    LET R       == Rendered(isLoading, hiddenPanels)
        regions == R \cap {"code", "readme", "io"}
        seps    == R \cap {"sep-code", "sep-readme"}
    IN  /\ Cardinality(seps) = IF regions = {} THEN 0 ELSE Cardinality(regions) - 1
        /\ ("code" \in R /\ regions \cap {"readme", "io"} # {}) => "sep-code" \in R
        /\ ("readme" \in R /\ "io" \in R) => "sep-readme" \in R
        /\ ("sep-io" \in R) = ("input" \in R /\ "output" \in R)
        /\ ("io" \in R) = ("input" \in R \/ "output" \in R)
        /\ ~isLoading => \A p \in AllPanels : (p \in R) = (p \notin hiddenPanels)

\* C23 witness: code and input are hidden; README and the IO column are
\* rendered with one separator between them, and none inside the IO column
C23_Witness ==
    /\ ~isLoading
    /\ hiddenPanels = {"code", "input"}
    /\ Rendered(isLoading, hiddenPanels) \cap {"sep-code", "sep-readme", "sep-io"} = {"sep-readme"}
    /\ Rendered(isLoading, hiddenPanels) \cap {"code", "readme", "io"} = {"readme", "io"}

\* ------------------------------------------------------------------ C24

\* C24: at most one execute request is outstanding; isRunning is true
\* exactly while one is; and Run can be triggered only when isRunning is
\* false and there is code, so never while a request is outstanding.
C24_OneRunInFlight ==
    /\ Len(runs) <= 1
    /\ isRunning = (runs # <<>>)
    /\ (ENABLED handleRun) => (~isRunning /\ code # <<>> /\ runs = <<>>)

\* C24 witness: a run is in flight, there is code, and Run cannot be
\* triggered
C24_Witness ==
    /\ isRunning
    /\ Len(runs) = 1
    /\ code # <<>>
    /\ ~isLoading
    /\ ~ENABLED handleRun

\* ------------------------------------------------------------------ C28

\* C28: codeFontSize is an integer from 8 to 20 in every state: 13 until the
\* view has loaded and shows the font buttons, from 8 to 16 right after
\* auto-fit.
C28_FontSizeInRange ==
    /\ codeFontSize \in 8..20
    /\ isLoading => codeFontSize = 13
    /\ lastEvent.handler = "autoFitCode" => codeFontSize \in 8..16

\* C28 witness: increase was clicked with the size at its ceiling
C28_Witness ==
    /\ lastEvent = Event("setCodeFontSize", "increase", "")
    /\ codeFontSize = 20
    /\ ~ENABLED (IncreaseFontClick /\ codeFontSize' # codeFontSize)

\* ------------------------------------------------------------------ C25

\* C25: when the input field no longer holds the text the run was started
\* with, the hint block is appended to the program's output exactly when
\* its conditions hold of the text the run was started with, and the output
\* is shown as it came otherwise.
C25_HintUsesCapturedInput ==
    [][\A i \in 1..Len(runs) : \A resp \in RunResponses :
          (ExecuteResponse(i, resp) /\ ShowsOutput(resp) /\ input # runs[i].stdin) =>
              LET text  == resp.data.output[1]
                  shown == output' = text \o HintBlock
              IN  /\ shown = HintDue(resp, text, runs[i].stdin)
                  /\ ~shown => output' = text]_vars

\* C25 witness: the hint was appended although the input field holds "5":
\* the run was started with a blank input and the 5 typed while it was in
\* flight
C25_Witness ==
    /\ lastEvent = Event("handleRun-response", "hint", "")
    /\ input = <<"5", "\n">>
    /\ Len(output) > Len(HintBlock)
    /\ SubSeq(output, Len(output) - Len(HintBlock) + 1, Len(output)) = HintBlock

\* ------------------------------------------------------------------ C26

\* The syntax name of a filename: the syntax table's name for its extension
\* in lower case, plaintext when it has none
SyntaxOfName(f) ==
    IF HasExtension(f) /\ SyntaxesListing(toLowerCase(Extension(f))) # {}
    THEN CHOOSE n \in SyntaxesListing(toLowerCase(Extension(f))) : TRUE
    ELSE "plaintext"

\* C26: whenever code is not empty it is the content of a file of the tree
\* and prismLanguage is the syntax name of that file's name, whatever file
\* is active and whatever requests are still awaited.
C26_SyntaxMatchesCode ==
    code # <<>> =>
        \E i \in 1..Len(PreOrderFiles(files)) :
            LET node == PreOrderFiles(files)[i]
            IN  /\ FileBytes(node.path) = code
                /\ prismLanguage = SyntaxOfName(node.name)

\* C26 witness: in "mixed" the content of pkg/Util.JAVA arrived after the
\* user had gone on to ReadMe.md: the code and the syntax are those of
\* Util.JAVA while ReadMe.md is active and its content awaited
C26_Witness ==
    /\ repo = "mixed"
    /\ activeFile = "ReadMe.md"
    /\ Len(fileFetches) = 1
    /\ fileFetches[1].path = "ReadMe.md"
    /\ code = FileBytes("pkg/Util.JAVA")
    /\ prismLanguage = "c"
    /\ lastEvent = Event("fetchFileContent", "ok", "pkg/Util.JAVA")

\* ------------------------------------------------------------------ C27

\* C27: the restore buttons offered are those of the hidden panels, no more
\* and no fewer; each can be clicked, and the click takes its panel, and
\* only it, out of hiddenPanels and so brings it back on screen.  Every
\* click leaves one hidden panel fewer, so the all-visible state is at most
\* four clicks away from any state.
C27_HiddenPanelsRestorable ==
    /\ RestoreButtons(isLoading, hiddenPanels) = hiddenPanels
    /\ \A p \in hiddenPanels :
          /\ ENABLED TogglePanelClick(p)
          /\ togglePanel(hiddenPanels, p) = hiddenPanels \ {p}
          /\ p \in Rendered(isLoading, togglePanel(hiddenPanels, p))

\* C27 witness: all four panels are hidden and all four restore buttons
\* are offered
C27_Witness ==
    /\ ~isLoading
    /\ hiddenPanels = AllPanels
    /\ RestoreButtons(isLoading, hiddenPanels) = {"code", "readme", "input", "output"}
    /\ Rendered(isLoading, hiddenPanels) = {"sidebar"}

\* ------------------------------------------------------------------ C29

\* C29: while the README is awaited the complete tree is already in files
\* and no file is selected yet; when the README fetch fails the load ends
\* in the catch: isLoading becomes false, files keeps the complete tree,
\* activeFile, code and readme are unchanged and no content is requested.
C29_ReadmeFailureSkipsSelection ==
    [][/\ loadPc = "readme" =>
            /\ isLoading
            /\ files = ListingTree(repo, Listing(repo, ""))
            /\ activeFile = ""
            /\ fileFetches = <<>>
       /\ (loadPc = "readme" /\ lastEvent'.detail # "ok") =>
            /\ loadPc' = "failed"
            /\ ~isLoading'
            /\ files' = files
            /\ activeFile' = ""
            /\ code' = code
            /\ readme' = readme
            /\ fileFetches' = <<>>]_vars

\* C29 witness: in "mixed" the README fetch has failed; the tree is shown,
\* nothing is selected, nothing awaited
C29_Witness ==
    /\ repo = "mixed"
    /\ lastEvent = Event("fetchRepoContents", "network-error", "readme")
    /\ loadPc = "failed"
    /\ ~isLoading
    /\ Len(files) = 4
    /\ files = ListingTree(repo, Listing(repo, ""))
    /\ activeFile = ""
    /\ code = <<>>
    /\ fileFetches = <<>>

====
